---------------------------- MODULE Spec2Model ----------------------------
(***************************************************************************)
(* Granola -> Obsidian sync: the transcript writer (generate_transcript_   *)
(* file), the day-file aggregator (create_daily_file, add_meeting_to_daily)*)
(* and the batch loop (sync_transcripts) of src/granola_sync.py.           *)
(*                                                                         *)
(* Text is a sequence of tokens.  A token is a piece of text that the code *)
(* never looks inside of, so that Python's substring tests (`x in s`),     *)
(* str.split, str.replace and re.search become operations on token         *)
(* sequences.  Pieces the code does look inside of are split further:      *)
(* "### T" is <<"#", "## ", T>> because "## Meetings" is a substring of    *)
(* "### Meetings", and an id "d10" is <<"d", "1", "0">> because            *)
(* "granola_id: d1" is a substring of "granola_id: d10".                   *)
(***************************************************************************)
EXTENDS Integers, Sequences, FiniteSets, TLC

VARIABLES
    files,      \* transcripts folder: file name (text) -> content (text)
    daily,      \* daily folder: date -> content (text)
    snapshot,   \* the cache snapshot: sequence of [id, doc, entries]
    now,        \* position of the wall clock in Clock
    pc,         \* "idle" or "loop" (inside sync_transcripts' for loop)
    idx,        \* loop position in the snapshot's transcripts
    stats,      \* the counters of the running sync_transcripts call
    runs,       \* number of sync_transcripts calls started
    hist,       \* what the previous finished run saw and returned
    edits,      \* number of changes the cache has seen since it was first read
    last,       \* the last operation: its name, arguments, result, pre-state
    projects,   \* project files of the vault: path -> content (text)
    transcripts \* the paths main() of process_transcripts.py iterates over

vars == <<files, daily, snapshot, now, pc, idx, stats, runs, hist, edits, last,
          projects, transcripts>>

----------------------------------------------------------------------------
(* Bounds *)

MaxRuns == 2
MaxRecords == 2
MaxEdits == 1
MaxCalls == 2

----------------------------------------------------------------------------
(* Text primitives *)

NL == "\n"

IsSpace(tok) == tok \in {"\n", " "}

\* `needle in hay`
Contains(hay, needle) ==
    \E k \in 0..(Len(hay) - Len(needle)) :
        SubSeq(hay, k + 1, k + Len(needle)) = needle

\* hay.find(needle) + 1, or 0
FirstIndex(hay, needle) ==
    IF Contains(hay, needle)
    THEN CHOOSE k \in 1..(Len(hay) - Len(needle) + 1) :
            /\ SubSeq(hay, k, k + Len(needle) - 1) = needle
            /\ \A j \in 1..(k - 1) : SubSeq(hay, j, j + Len(needle) - 1) # needle
    ELSE 0

Drop(s, n) == SubSeq(s, n + 1, Len(s))
Take(s, n) == SubSeq(s, 1, n)

\* number of non-overlapping occurrences, scanning left to right, as
\* str.split and str.replace find them
RECURSIVE CountOcc(_, _)
CountOcc(hay, needle) ==
    LET k == FirstIndex(hay, needle) IN
    IF k = 0 THEN 0
    ELSE 1 + CountOcc(Drop(hay, k + Len(needle) - 1), needle)

\* hay.replace(needle, repl): every occurrence
RECURSIVE ReplaceAll(_, _, _)
ReplaceAll(hay, needle, repl) ==
    LET k == FirstIndex(hay, needle) IN
    IF k = 0 THEN hay
    ELSE Take(hay, k - 1) \o repl
            \o ReplaceAll(Drop(hay, k + Len(needle) - 1), needle, repl)

RECURSIVE RStrip(_)
RStrip(s) ==
    IF s # <<>> /\ IsSpace(s[Len(s)]) THEN RStrip(Take(s, Len(s) - 1)) ELSE s

RECURSIVE LStrip(_)
LStrip(s) ==
    IF s # <<>> /\ IsSpace(s[1]) THEN LStrip(Drop(s, 1)) ELSE s

Strip(s) == LStrip(RStrip(s))

RECURSIVE Without(_, _)
Without(s, toks) ==
    IF s = <<>> THEN <<>>
    ELSE (IF s[1] \in toks THEN <<>> ELSE <<s[1]>>) \o Without(Drop(s, 1), toks)

RECURSIVE Flatten(_)
Flatten(ss) == IF ss = <<>> THEN <<>> ELSE ss[1] \o Flatten(Drop(ss, 1))


----------------------------------------------------------------------------
(* Values of the cache snapshot *)

\* A timestamp field of the cache: k = "none" (key missing or ""),
\* k = "bad" (a string datetime.fromisoformat rejects) or k = "ts".
NoTs == [k |-> "none", date |-> "", hhmm |-> "", secs |-> 0]
BadTs == [k |-> "bad", date |-> "", hhmm |-> "", secs |-> 0]
Ts(d, t, s) == [k |-> "ts", date |-> d, hhmm |-> t, secs |-> s]

D15 == "2026-01-15"
D16 == "2026-01-16"

TsA == Ts(D15, "1000", 36000)     \* 2026-01-15T10:00:00Z
TsB == Ts(D15, "1010", 36630)     \* 2026-01-15T10:10:30Z
TsC == Ts(D16, "0900", 118800)    \* 2026-01-16T09:00:00Z

\* The readings of datetime.now() the model lets the wall clock take, in order.
Clock == << [date |-> D16, hhmm |-> "0900"],
            [date |-> D16, hhmm |-> "0905"] >>

\* strftime("%A")
DayName(date) == IF date = D15 THEN "Thursday" ELSE "Friday"

\* len() of a token in characters: the long token stands for a 600-character
\* text, every other token of the model is far below the code's thresholds.
LongText == "<600 chars.>"
Long500 == "<first 500 chars>"
CharLen(tok) == IF tok = LongText THEN 600 ELSE IF tok = Long500 THEN 500
                ELSE IF tok = " " THEN 1 ELSE 5

RECURSIVE TextLen(_)
TextLen(s) == IF s = <<>> THEN 0 ELSE CharLen(s[1]) + TextLen(Drop(s, 1))

\* s[:n]: a cut that falls inside the long token leaves its first 500
\* characters (the only cut inside a token the model's texts allow)
RECURSIVE TakeChars(_, _)
TakeChars(s, n) ==
    IF s = <<>> \/ n <= 0 THEN <<>>
    ELSE IF CharLen(s[1]) <= n
         THEN <<s[1]>> \o TakeChars(Drop(s, 1), n - CharLen(s[1]))
         ELSE IF s[1] = LongText /\ n >= 500 THEN <<Long500>> ELSE <<>>

----------------------------------------------------------------------------
(* sanitize_filename, get_meeting_date, notes, attendees *)

SpecialChars == {"<", ">", ":", "\"", "/", "\\", "|", "?", "*"}

sanitize_filename(title) ==
    LET sanitized == Strip(Without(title, SpecialChars)) IN
    IF TextLen(sanitized) > 100 THEN Strip(TakeChars(sanitized, 100))
    ELSE sanitized

\* get_meeting_date without the fall back to the document's created_at
get_meeting_date_no_created_at(entries, doc, clock) ==
    IF entries # <<>> /\ entries[1].start_timestamp.k = "ts"
    THEN [date |-> entries[1].start_timestamp.date,
          hhmm |-> entries[1].start_timestamp.hhmm]
    ELSE clock

\* entries[0].get("start_timestamp"), else doc.get("created_at"), else now()
get_meeting_date(entries, doc, clock) ==
    IF entries # <<>> /\ entries[1].start_timestamp.k = "ts"
    THEN [date |-> entries[1].start_timestamp.date,
          hhmm |-> entries[1].start_timestamp.hhmm]
    ELSE IF doc.created_at.k = "ts"
    THEN [date |-> doc.created_at.date, hhmm |-> doc.created_at.hhmm]
    ELSE clock

\* a notes_markdown value of the cache that is no string (an object, a list)
NonStrNotes == <<"<not a str>">>

\* notes_markdown, then notes_plain, then notes (each only if a non-empty str)
get_notes_text(doc) ==
    IF doc.notes_markdown # <<>> /\ doc.notes_markdown # NonStrNotes
    THEN doc.notes_markdown
    ELSE IF doc.notes_plain # <<>> THEN doc.notes_plain
    ELSE doc.notes

\* doc["people"] is modelled by the list of its entries; an entry is a string
\* (obj = FALSE) or an object with email and name
get_attendees(doc) ==
    LET pick(p) == IF ~p.obj THEN <<p.name>>
                   ELSE IF p.email # "" THEN <<p.email>>
                   ELSE IF p.name # "" THEN <<p.name>> ELSE <<>>
    IN Flatten([n \in 1..Len(doc.people) |-> pick(doc.people[n])])

\* int(x / 60) of Python: rounds toward zero
TruncDiv(a, b) == IF a >= 0 THEN a \div b ELSE -((-a) \div b)

calculate_duration(entries) ==
    IF Len(entries) < 2 THEN 0
    ELSE LET first == entries[1].start_timestamp
             lastTs == entries[Len(entries)].end_timestamp
         IN IF first.k = "none" \/ lastTs.k = "none" THEN 0
            ELSE IF first.k = "bad" \/ lastTs.k = "bad" THEN 0
            ELSE TruncDiv(lastTs.secs - first.secs, 60)

\* texts of the entries: an empty text ("") is left out
EntryTexts(entries) ==
    Flatten([n \in 1..Len(entries) |->
                IF entries[n].text = "" THEN <<>> ELSE <<entries[n].text>>])

EndsSentence(tok) == tok \in {LongText, "Done."}

\* " ".join(p)
RECURSIVE JoinWith(_, _)
JoinWith(p, sep) ==
    IF p = <<>> THEN <<>>
    ELSE IF Len(p) = 1 THEN p[1]
    ELSE p[1] \o sep \o JoinWith(Drop(p, 1), sep)

Singletons(cur) == [n \in 1..Len(cur) |-> <<cur[n]>>]

\* the loop of get_transcript_text: texts still to read, the current
\* paragraph, the paragraphs closed so far
RECURSIVE GroupParagraphs(_, _, _)
GroupParagraphs(texts, cur, paragraphs) ==
    IF texts = <<>>
    THEN (IF cur # <<>> THEN Append(paragraphs, cur) ELSE paragraphs)
    ELSE LET c == Append(cur, texts[1]) IN
         IF /\ (Len(c) >= 10 \/ EndsSentence(texts[1]))
            /\ TextLen(JoinWith(Singletons(c), <<" ">>)) > 500
         THEN GroupParagraphs(Drop(texts, 1), <<>>, Append(paragraphs, c))
         ELSE GroupParagraphs(Drop(texts, 1), c, paragraphs)

get_transcript_text(entries) ==
    LET ps == GroupParagraphs(EntryTexts(entries), <<>>, <<>>) IN
    JoinWith([n \in 1..Len(ps) |-> JoinWith(Singletons(ps[n]), <<" ">>)],
             <<NL, NL>>)

----------------------------------------------------------------------------
(* generate_transcript_file *)

Put(f, key, val) == (key :> val) @@ f

\* a str value of the frontmatter: wrapped in double quotes when it holds
\* a colon or a double quote
FmValue(v) ==
    IF \E n \in 1..Len(v) : v[n] \in {":", "\""}
    THEN <<"\"">> \o v \o <<"\"">>
    ELSE v

\* the text the existence check looks for in the file at the base path
IdNeedle(doc_id) == <<"granola_id: ">> \o doc_id

AttendeeLines(attendees) ==
    IF attendees = <<>> THEN <<>>
    ELSE <<"attendees:", NL>>
         \o Flatten([n \in 1..Len(attendees) |-> <<"  - ", attendees[n], NL>>])

Frontmatter(date_str, title, doc_id, duration, entry_count, attendees) ==
    <<"---", NL, "date: ", date_str, NL, "title: ">> \o FmValue(title)
    \o <<NL, "source: ", "granola", NL, "granola_id: ">> \o FmValue(doc_id)
    \o <<NL, "duration_minutes: ", ToString(duration),
         NL, "entry_count: ", ToString(entry_count),
         NL, "processed: ", "false", NL>>
    \o AttendeeLines(attendees) \o <<"---">>

NotesPlaceholder ==
    <<"*No AI notes available", " - will be generated during processing*">>

TranscriptContent(doc_id, doc, entries, date_str) ==
    LET notes == get_notes_text(doc) IN
    Frontmatter(date_str, doc.title, doc_id, calculate_duration(entries),
                Len(entries), get_attendees(doc))
    \o <<NL, NL, "## ", "Notes", NL, NL>>
    \o (IF notes # <<>> THEN notes ELSE NotesPlaceholder)
    \o <<NL, NL, "---", NL, NL, "## ", "Transcript", NL, NL>>
    \o get_transcript_text(entries)

BasePath(date_str, safe_title) == <<date_str, " - ">> \o safe_title \o <<".md">>

SuffixPath(date_str, safe_title, time_str) ==
    <<date_str, " - ">> \o safe_title \o <<" (", time_str, ")", ".md">>

\* the existence check looking for the identity under another key
SameDocument_wrong_key(existing_content, doc_id) ==
    Contains(existing_content, <<"id: ">> \o doc_id)

\* TRUE when the file at the base path is taken for this document's own
SameDocument(existing_content, doc_id) ==
    Contains(existing_content, IdNeedle(doc_id))

\* Returns the path, was_created and the transcripts folder afterwards.
\* generate_transcript_file writing to the plain name whenever the file
\* there is not this document's
generate_transcript_file_overwrites(doc_id, doc, entries, clock, fs) ==
    LET meeting_dt == get_meeting_date(entries, doc, clock)
        date_str == meeting_dt.date
        safe_title == sanitize_filename(doc.title)
        base == BasePath(date_str, safe_title)
        content == TranscriptContent(doc_id, doc, entries, date_str)
    IN  IF base \in DOMAIN fs /\ SameDocument(fs[base], doc_id)
        THEN [path |-> base, was_created |-> FALSE, files |-> fs]
        ELSE [path |-> base, was_created |-> TRUE,
              files |-> Put(fs, base, content)]

generate_transcript_file(doc_id, doc, entries, clock, fs) ==
    LET meeting_dt == get_meeting_date(entries, doc, clock)
        date_str == meeting_dt.date
        time_str == meeting_dt.hhmm
        safe_title == sanitize_filename(doc.title)
        base == BasePath(date_str, safe_title)
        alt == SuffixPath(date_str, safe_title, time_str)
        content == TranscriptContent(doc_id, doc, entries, date_str)
    IN  IF base \in DOMAIN fs
        THEN IF SameDocument(fs[base], doc_id)
             THEN [path |-> base, was_created |-> FALSE, files |-> fs]
             ELSE IF alt \in DOMAIN fs
             THEN [path |-> alt, was_created |-> FALSE, files |-> fs]
             ELSE [path |-> alt, was_created |-> TRUE,
                   files |-> Put(fs, alt, content)]
        ELSE [path |-> base, was_created |-> TRUE,
              files |-> Put(fs, base, content)]

----------------------------------------------------------------------------
(* create_daily_file, add_meeting_to_daily *)

H2(name) == <<"## ", name>>

Divider == <<NL, NL, "---", NL, NL>>

Template(date_str) ==
    <<"# ", date_str, " (", DayName(date_str), ")", NL, NL>>
    \o H2("Schedule") \o <<NL, "| Time | What |", NL, "|------|------|">>
    \o Divider \o H2("Work")
    \o Divider \o H2("Meetings")
    \o Divider \o H2("Social / Follow-ups")
    \o Divider \o H2("Brain Dump")
    \o <<NL, NL, "---", NL>>

\* create_daily_file without its early return for an existing file
create_daily_file_overwrites(date_str, ds) ==
    Put(ds, date_str, Template(date_str))

\* Returns the day folder afterwards (the returned path is the date's).
create_daily_file(date_str, ds) ==
    IF date_str \in DOMAIN ds THEN ds
    ELSE Put(ds, date_str, Template(date_str))

\* str(rel_path).replace(".md", "")
LinkPath(transcript_path) ==
    <<"Meetings/Transcripts/">> \o Without(transcript_path, {".md"})

LinkToken(transcript_path) == <<"[[">> \o LinkPath(transcript_path) \o <<"]]">>

\* s.split("\n")
RECURSIVE SplitLines(_)
SplitLines(s) ==
    LET k == FirstIndex(s, <<NL>>) IN
    IF k = 0 THEN <<s>>
    ELSE <<Take(s, k - 1)>> \o SplitLines(Drop(s, k))

StartsWithDash(s) == s # <<>> /\ s[1] \in {"- ", "-"}

NotesPending == <<"*Notes pending*">>

SummaryNotes(notes) ==
    LET stripped == IF notes # <<>> THEN Strip(notes) ELSE NotesPending
        cut == IF TextLen(stripped) > 500
               THEN TakeChars(stripped, 500) \o <<"...">>
               ELSE stripped
        lines == SplitLines(cut)
        first5 == Take(lines, IF Len(lines) < 5 THEN Len(lines) ELSE 5)
        bullet(line) == LET l == Strip(line) IN
                        IF l = <<>> THEN <<>>
                        ELSE IF StartsWithDash(l) THEN <<l>>
                        ELSE << <<"- ">> \o l >>
        bullet_lines == Flatten([n \in 1..Len(first5) |-> bullet(first5[n])])
    IN  IF cut # <<>> /\ ~StartsWithDash(cut) /\ cut[1] # "*Notes pending*"
        THEN (IF bullet_lines # <<>> THEN JoinWith(bullet_lines, <<NL>>)
              ELSE cut)
        ELSE cut

MeetingEntry(title, notes, transcript_path) ==
    <<NL, "#", "## ">> \o title \o <<NL>> \o SummaryNotes(notes)
    \o <<NL, "*-> ">> \o LinkToken(transcript_path) \o <<"*", NL>>

\* the parts of content.split("## Meetings") are two
MeetingsSplitsInTwo(content) == CountOcc(content, H2("Meetings")) = 1

\* the branch taken when the Meetings heading splits the content in two
SpliceUnderMeetings(content, meeting_entry) ==
    LET k == FirstIndex(content, H2("Meetings"))
        before == Take(content, k - 1)
        after == Drop(content, k + 1)
        m == FirstIndex(after, <<NL, "## ">>)
    IN  IF m > 0
        THEN before \o H2("Meetings") \o Take(after, m - 1)
                \o meeting_entry \o Drop(after, m - 1)
        ELSE before \o H2("Meetings") \o RStrip(after)
                \o meeting_entry \o <<NL>>

SpliceBeforeBrainDump(content, meeting_entry) ==
    ReplaceAll(content, H2("Brain Dump"),
               H2("Meetings") \o <<NL>> \o meeting_entry
                   \o <<NL, "---", NL, NL>> \o H2("Brain Dump"))

AppendMeetings(content, meeting_entry) ==
    RStrip(content) \o <<NL, NL>> \o H2("Meetings") \o <<NL>> \o meeting_entry

\* Returns whether the entry was added, whether the call raised (notes.strip()
\* on notes that are no string) and the day documents afterwards.
add_meeting_to_daily(date_str, title, notes, transcript_path, ds) ==
    LET ds1 == IF date_str \notin DOMAIN ds THEN create_daily_file(date_str, ds)
               ELSE ds
        content == ds1[date_str]
        meeting_entry == MeetingEntry(title, notes, transcript_path)
    IN  IF Contains(content, LinkToken(transcript_path))
        THEN [added |-> FALSE, raised |-> FALSE, daily |-> ds1]
        ELSE IF notes = NonStrNotes
        THEN [added |-> FALSE, raised |-> TRUE, daily |-> ds1]
        ELSE IF Contains(content, H2("Meetings")) /\ MeetingsSplitsInTwo(content)
        THEN [added |-> TRUE, raised |-> FALSE,
              daily |-> Put(ds1, date_str,
                            SpliceUnderMeetings(content, meeting_entry))]
        ELSE IF Contains(content, H2("Brain Dump"))
        THEN [added |-> TRUE, raised |-> FALSE,
              daily |-> Put(ds1, date_str,
                            SpliceBeforeBrainDump(content, meeting_entry))]
        ELSE [added |-> TRUE, raised |-> FALSE,
              daily |-> Put(ds1, date_str,
                            AppendMeetings(content, meeting_entry))]

----------------------------------------------------------------------------
(* The cache snapshots of the model *)

IdD1 == <<"d", "1">>
IdD10 == <<"d", "1", "0">>
IdAB == <<"a", ":", "b">>
IdD2 == <<"d", "2">>

\* the id of the n-th transcript of a snapshot
IdSeq == <<IdD1, IdD10, IdAB, IdD2>>

TeamStandup == <<"Team Standup">>
Retro == <<"Retro">>

\* "## Action Items\n- Review PR"
FixtureNotes == <<"## ", "Action Items", NL, "- ", "Review PR">>

Entry(text, start, end) ==
    [text |-> text, start_timestamp |-> start, end_timestamp |-> end]

\* two entries without start_timestamp / end_timestamp keys
EntriesNoTs == << Entry("Good morning everyone", NoTs, NoTs),
                  Entry("Let's start the standup", NoTs, NoTs) >>

\* two entries, 10:00:00 to 10:10:30
EntriesTs == << Entry("Good morning everyone", TsA, TsA),
                Entry("Done.", TsB, TsB) >>

Doc(title, created_at, notes_markdown) ==
    [title |-> title, title_null |-> FALSE, created_at |-> created_at,
     notes_markdown |-> notes_markdown, notes_plain |-> <<>>, notes |-> <<>>,
     people |-> <<>>]

\* a transcript of the snapshot with its document: has_doc is FALSE when
\* documents has no (or an empty) entry for the id
Rec(id, doc, entries) ==
    [id |-> id, has_doc |-> TRUE, doc |-> doc, entries |-> entries]

RecOptions(id) ==
    { Rec(id, Doc(TeamStandup, NoTs, <<>>), EntriesNoTs),
      Rec(id, Doc(TeamStandup, TsA, <<>>), EntriesNoTs),
      Rec(id, Doc(TeamStandup, TsA, <<>>), EntriesTs),
      Rec(id, Doc(TeamStandup, TsA, <<>>), <<>>),
      Rec(id, Doc(TeamStandup, TsA, NonStrNotes), EntriesNoTs),
           [Rec(id, Doc(TeamStandup, TsA, <<>>), EntriesNoTs)
                EXCEPT !.has_doc = FALSE],
           [Rec(id, Doc(TeamStandup, TsA, <<>>), EntriesNoTs)
                EXCEPT !.doc.title_null = TRUE] }

Snapshots ==
    UNION { { s \in [1..n -> UNION {RecOptions(IdSeq[k]) : k \in 1..n}] :
                \A k \in 1..n : s[k].id = IdSeq[k] } : n \in 0..MaxRecords }

----------------------------------------------------------------------------
(* sync_transcripts *)

ZeroStats == [transcripts_created |-> 0, transcripts_skipped |-> 0,
              daily_entries_added |-> 0, errors |-> 0]

NoHist == [valid |-> FALSE, start |-> [files |-> <<>>, daily |-> <<>>]]

Vault == [files |-> files, daily |-> daily]

\* a record the loop body handles inside its try block
Eligible(rec) == rec.entries # <<>> /\ rec.has_doc

\* sanitize_filename(None) raises TypeError out of generate_transcript_file
Raises(rec) == rec.doc.title_null

\* notes = doc.get("notes_markdown") or doc.get("notes_plain") or ""
DailyNotes(doc) ==
    IF doc.notes_markdown # <<>> THEN doc.notes_markdown ELSE doc.notes_plain

Init ==
    /\ files = <<>>
    /\ projects = <<>>
    /\ transcripts = <<>>
    /\ daily = <<>>
    /\ snapshot \in Snapshots
    /\ now = 1
    /\ pc = "idle"
    /\ idx = 0
    /\ stats = ZeroStats
    /\ runs = 0
    /\ hist = NoHist
    /\ edits = 0
    /\ last = [op |-> "init"]

\* the wall clock moves on
Tick ==
    /\ now < Len(Clock)
    /\ now' = now + 1
    /\ UNCHANGED <<projects, transcripts, files, daily, snapshot, pc, idx, stats, runs, hist, edits, last>>

\* the note-taking application rewrites one record of its cache between two
\* runs (the cache the first run reads is the one Init draws)
EditCache ==
    /\ pc = "idle"
    /\ hist.valid
    /\ edits < MaxEdits
    /\ \E n \in 1..Len(snapshot) :
        \E d \in { [snapshot[n].doc EXCEPT !.title = Retro],
                   [snapshot[n].doc EXCEPT !.notes_markdown = FixtureNotes],
                   [snapshot[n].doc EXCEPT !.created_at = TsC] } :
            /\ d # snapshot[n].doc
            /\ snapshot' = [snapshot EXCEPT ![n].doc = d]
    /\ edits' = edits + 1
    /\ last' = [op |-> "edit"]
    /\ UNCHANGED <<projects, transcripts, files, daily, now, pc, idx, stats, runs, hist>>

\* the cache file is missing or unparsable at the next read:
\* load_granola_cache returns empty mappings
CacheLost ==
    /\ pc = "idle"
    /\ hist.valid
    /\ edits < MaxEdits
    /\ snapshot # <<>>
    /\ snapshot' = <<>>
    /\ edits' = edits + 1
    /\ last' = [op |-> "cache_lost"]
    /\ UNCHANGED <<projects, transcripts, files, daily, now, pc, idx, stats, runs, hist>>

\* sync_transcripts with a day document made ahead of the loop
SyncStartEager ==
    /\ pc = "idle"
    /\ runs < MaxRuns
    /\ pc' = "loop"
    /\ idx' = 1
    /\ stats' = ZeroStats
    /\ runs' = runs + 1
    /\ hist' = [hist EXCEPT !.start = Vault]
    /\ daily' = create_daily_file(Clock[now].date, daily)
    /\ last' = [op |-> "sync_start"]
    /\ UNCHANGED <<projects, transcripts, files, snapshot, now, edits>>

\* sync_transcripts is called: the counters are zeroed and the cache is loaded
SyncStart ==
    /\ pc = "idle"
    /\ runs < MaxRuns
    /\ pc' = "loop"
    /\ idx' = 1
    /\ stats' = ZeroStats
    /\ runs' = runs + 1
    /\ hist' = [hist EXCEPT !.start = Vault]
    /\ last' = [op |-> "sync_start"]
    /\ UNCHANGED <<projects, transcripts, files, daily, snapshot, now, edits>>

\* the loop body with an except branch that only logs
SyncBody_uncounted(rec, now2) ==
    IF ~Eligible(rec)
    THEN [files |-> files, daily |-> daily, stats |-> stats,
          raised |-> FALSE]
    ELSE IF Raises(rec)
    THEN [files |-> files, daily |-> daily, stats |-> stats,
          raised |-> TRUE]
    ELSE LET g == generate_transcript_file(rec.id, rec.doc, rec.entries,
                                           Clock[now], files)
             a == add_meeting_to_daily(
                      get_meeting_date(rec.entries, rec.doc, Clock[now2]).date,
                      rec.doc.title, DailyNotes(rec.doc), g.path, daily)
         IN  IF g.was_created
             THEN [files |-> g.files, daily |-> a.daily,
                   stats |-> [stats EXCEPT
                       !.transcripts_created = @ + 1,
                       !.daily_entries_added = IF a.added THEN @ + 1 ELSE @],
                   raised |-> a.raised]
             ELSE [files |-> files, daily |-> daily,
                   stats |-> [stats EXCEPT !.transcripts_skipped = @ + 1],
                   raised |-> FALSE]

\* one pass of the for loop over transcripts.items(); now2 is the clock's
\* reading at the second get_meeting_date call.  raised: an exception was
\* raised inside the try block, by generate_transcript_file or, after the
\* transcript file was written and counted, by add_meeting_to_daily
SyncBody(rec, now2) ==
    IF ~Eligible(rec)
    THEN [files |-> files, daily |-> daily, stats |-> stats,
          raised |-> FALSE]
    ELSE IF Raises(rec)
    THEN [files |-> files, daily |-> daily,
          stats |-> [stats EXCEPT !.errors = @ + 1], raised |-> TRUE]
    ELSE LET g == generate_transcript_file(rec.id, rec.doc, rec.entries,
                                           Clock[now], files)
         IN  IF g.was_created
             THEN LET meeting_dt == get_meeting_date(rec.entries, rec.doc,
                                                     Clock[now2])
                      a == add_meeting_to_daily(meeting_dt.date, rec.doc.title,
                                                DailyNotes(rec.doc), g.path,
                                                daily)
                  IN [files |-> g.files, daily |-> a.daily,
                      stats |-> [stats EXCEPT
                          !.transcripts_created = @ + 1,
                          !.daily_entries_added =
                              IF a.added THEN @ + 1 ELSE @,
                          !.errors = IF a.raised THEN @ + 1 ELSE @],
                      raised |-> a.raised]
             ELSE [files |-> files, daily |-> daily,
                   stats |-> [stats EXCEPT !.transcripts_skipped = @ + 1],
                   raised |-> FALSE]

SyncRecord ==
    /\ pc = "loop"
    /\ idx <= Len(snapshot)
    /\ \E now2 \in {now, IF now < Len(Clock) THEN now + 1 ELSE now} :
        LET r == SyncBody(snapshot[idx], now2) IN
        /\ files' = r.files
        /\ daily' = r.daily
        /\ stats' = r.stats
        /\ now' = now2
        /\ last' = [op |-> "sync_record", n |-> idx, raised |-> r.raised,
                    pre |-> [files |-> files, daily |-> daily,
                             stats |-> stats]]
    /\ idx' = idx + 1
    /\ UNCHANGED <<projects, transcripts, snapshot, pc, runs, hist, edits>>

\* the loop is over: sync_transcripts returns stats
SyncReturn ==
    /\ pc = "loop"
    /\ idx > Len(snapshot)
    /\ pc' = "idle"
    /\ hist' = [valid |-> TRUE, start |-> hist.start, snapshot |-> snapshot,
                vault |-> Vault, stats |-> stats]
    /\ last' = [op |-> "sync_return", ret |-> stats, prev |-> hist]
    /\ UNCHANGED <<projects, transcripts, files, daily, snapshot, now, idx, stats, runs, edits>>

Next ==
    \/ Tick
    \/ EditCache
    \/ CacheLost
    \/ SyncStart
    \/ SyncRecord
    \/ SyncReturn

Spec == Init /\ [][Next]_vars

----------------------------------------------------------------------------
(* Reading a document back *)

\* parts[1] of content.split("---", 2) for a content that starts with "---"
FrontmatterBlock(content) ==
    IF content # <<>> /\ content[1] = "---" /\ Contains(Drop(content, 1), <<"---">>)
    THEN Take(Drop(content, 1), FirstIndex(Drop(content, 1), <<"---">>) - 1)
    ELSE <<>>

Unquote(v) ==
    IF Len(v) >= 2 /\ v[1] = "\"" /\ v[Len(v)] = "\""
    THEN SubSeq(v, 2, Len(v) - 1) ELSE v

\* the value the frontmatter gives to a key (<<>> when it has no such line)
FmField(content, key) ==
    LET block == FrontmatterBlock(content)
        k == FirstIndex(block, <<NL, key>>)
        rest == Drop(block, k + 1)
        e == FirstIndex(rest, <<NL>>)
    IN  IF k = 0 THEN <<>>
        ELSE Unquote(IF e = 0 THEN rest ELSE Take(rest, e - 1))

FmIdentity(content) == FmField(content, "granola_id: ")

\* the text of a section: from its heading to the next "\n## " or the end
SectionText(content, name) ==
    LET k == FirstIndex(content, H2(name))
        after == Drop(content, k + 1)
        m == FirstIndex(after, <<NL, "## ">>)
    IN  IF k = 0 THEN <<>>
        ELSE IF m = 0 THEN after ELSE Take(after, m - 1)

----------------------------------------------------------------------------
(* Claims on sync_transcripts, checked under Spec *)

EligibleCount == Cardinality({n \in 1..Len(snapshot) : Eligible(snapshot[n])})

\* a run has returned and the run before it read the same cache
SecondRunOnSameCache ==
    /\ last.op = "sync_return"
    /\ last.prev.valid
    /\ last.prev.snapshot = snapshot

\* C1: a second sync run on an unchanged cache snapshot creates no transcript
\* and leaves the files of the vault and their contents as the first run
\* left them.
C1_SecondRunIsNoOp ==
    SecondRunOnSameCache =>
        /\ last.ret.transcripts_created = 0
        /\ Vault = last.prev.vault

\* C2: for each source id at most one transcript document has that id as its
\* frontmatter granola_id, in every vault state reached by sync runs.
C2_OneDocumentPerId ==
    \A p, q \in DOMAIN files :
        (FmIdentity(files[p]) = FmIdentity(files[q])) => (p = q)

\* the first run, on a cache with the one record of the scenario
C6_Scenario ==
    /\ last.op = "sync_return"
    /\ ~last.prev.valid
    /\ Len(snapshot) = 1
    /\ snapshot[1].has_doc
    /\ ~snapshot[1].doc.title_null
    /\ snapshot[1].doc.title = TeamStandup
    /\ snapshot[1].doc.created_at = TsA
    /\ snapshot[1].doc.notes_markdown = <<>>
    /\ Len(snapshot[1].entries) = 2

\* C6: one record "Team Standup" created 2026-01-15T10:00:00Z with two
\* entries, synced into an empty vault: one transcript created, no error, one
\* transcript file, named after the title, and the day document 2026-01-15
\* has a Meetings section that holds the link to that file.
C6_OneRecordScenario ==
    C6_Scenario =>
        /\ last.ret.transcripts_created = 1
        /\ last.ret.errors = 0
        /\ Cardinality(DOMAIN files) = 1
        /\ \A p \in DOMAIN files :
            /\ Contains(p, TeamStandup)
            /\ D15 \in DOMAIN daily
            /\ Contains(daily[D15], H2("Meetings"))
            /\ Contains(SectionText(daily[D15], "Meetings"), LinkToken(p))

C6_Witness == C6_Scenario /\ snapshot[1].entries = EntriesNoTs

\* C7: a sync run on a cache with no documents and no transcripts returns
\* four zero counters and leaves every file of the vault as it was.
C7_EmptyCache ==
    (last.op = "sync_return" /\ snapshot = <<>>) =>
        /\ last.ret = ZeroStats
        /\ Vault = last.prev.start

C7_Witness ==
    /\ last.op = "sync_return"
    /\ snapshot = <<>>
    /\ files # <<>>

----------------------------------------------------------------------------
(* generate_transcript_file called on its own: SpecGen *)

\* notes whose text mentions another document's identity line
MentionNotes == <<"see ", "granola_id: ", "d", "1">>

GenIds == {IdD1, IdD10, IdAB}

GenDocs == { Doc(TeamStandup, c, n) :
                c \in {TsA, TsB}, n \in {<<>>, FixtureNotes, MentionNotes} }

GenEntries == {EntriesNoTs, <<Entry("Done.", NoTs, NoTs)>>}

InitGen ==
    /\ files = <<>>
    /\ projects = <<>>
    /\ transcripts = <<>>
    /\ daily = <<>>
    /\ snapshot = <<>>
    /\ now = 1
    /\ pc = "idle"
    /\ idx = 0
    /\ stats = ZeroStats
    /\ runs = 0
    /\ hist = [op |-> "none"]
    /\ edits = 0
    /\ last = [op |-> "none"]

GenCall ==
    /\ runs < MaxCalls
    /\ \E doc_id \in GenIds, doc \in GenDocs, entries \in GenEntries :
        LET g == generate_transcript_file(doc_id, doc, entries, Clock[now], files)
            dt == get_meeting_date(entries, doc, Clock[now])
        IN  /\ files' = g.files
            /\ last' = [op |-> "generate_transcript_file", doc_id |-> doc_id,
                        doc |-> doc, entries |-> entries, pre |-> files,
                        path |-> g.path, was_created |-> g.was_created,
                        base |-> BasePath(dt.date, sanitize_filename(doc.title)),
                        alt |-> SuffixPath(dt.date, sanitize_filename(doc.title),
                                           dt.hhmm)]
    /\ hist' = last
    /\ runs' = runs + 1
    /\ UNCHANGED <<projects, transcripts, daily, snapshot, now, pc, idx, stats, edits>>

NextGen == GenCall

SpecGen == InitGen /\ [][NextGen]_vars

IsGen == last.op = "generate_transcript_file"

\* the frontmatter of the content has the line "granola_id: <doc_id>"
FrontmatterHoldsId(content, doc_id) ==
    Contains(FrontmatterBlock(content), <<NL>> \o IdNeedle(doc_id) \o <<NL>>)

C3_Case ==
    /\ IsGen
    /\ last.base \in DOMAIN last.pre
    /\ FrontmatterHoldsId(last.pre[last.base], last.doc_id)

C4_SecondOfTwo ==
    /\ IsGen
    /\ hist.op = "generate_transcript_file"
    /\ hist.pre = <<>>
    /\ hist.doc_id # last.doc_id
    /\ hist.doc.title = last.doc.title
    /\ hist.base = last.base

\* the file at the base path is another document's and the suffixed path exists
C4_ThirdOfThree ==
    /\ IsGen
    /\ last.base \in DOMAIN last.pre
    /\ FmIdentity(last.pre[last.base]) # last.doc_id
    /\ last.alt \in DOMAIN last.pre

\* C4: two records with distinct ids, the same title and the same date, synced
\* into an empty folder, give two files, the second at the time-suffixed
\* path; a further id whose suffixed path is taken is a skip with no write.
C4_CollisionHandling ==
    /\ C4_SecondOfTwo =>
        /\ last.was_created
        /\ last.path = last.alt
        /\ Cardinality(DOMAIN files) = 2
    /\ C4_ThirdOfThree =>
        /\ ~last.was_created
        /\ files = last.pre

\* C5: a file at the base path is taken as this document's own (skip at the
\* base path) exactly when its frontmatter identity equals the source id;
\* any other file there is a name collision, sent to the suffixed path.
C5_IdentityDecidesSkip ==
    (IsGen /\ last.base \in DOMAIN last.pre) =>
        IF FmIdentity(last.pre[last.base]) = last.doc_id
        THEN last.path = last.base /\ ~last.was_created
        ELSE last.path = last.alt

----------------------------------------------------------------------------
(* add_action_items_to_daily (src/process_transcripts.py) *)

FromMarker(meeting_title) == <<"*From ">> \o meeting_title \o <<":*">>

\* "\n*From {title}:*\n" and one checkbox line for each of the first 10 items
ItemsText(action_items, meeting_title) ==
    LET first10 == Take(action_items,
                        IF Len(action_items) < 10 THEN Len(action_items) ELSE 10)
    IN  <<NL>> \o FromMarker(meeting_title) \o <<NL>>
        \o Flatten([n \in 1..Len(first10) |-> <<"- [ ] ", first10[n], NL>>])

\* start of the leftmost match of \n---\n|\n## , or 0
NextSectionStart(after) ==
    LET a == FirstIndex(after, <<NL, "---", NL>>)
        b == FirstIndex(after, <<NL, "## ">>)
    IN  IF a = 0 THEN b ELSE IF b = 0 THEN a ELSE IF a < b THEN a ELSE b

\* add_action_items_to_daily making the day document when it is missing
add_action_items_to_daily_creates(action_items, meeting_date, meeting_title, ds) ==
    IF action_items = <<>>
    THEN [added |-> FALSE, daily |-> ds]
    ELSE LET ds1 == create_daily_file(meeting_date, ds)
             content == ds1[meeting_date]
             k == FirstIndex(content, H2("Work"))
             after == Drop(content, k + 1)
             m == NextSectionStart(after)
         IN  IF k = 0 \/ m = 0 \/ Contains(content, FromMarker(meeting_title))
             THEN [added |-> FALSE, daily |-> ds1]
             ELSE [added |-> TRUE,
                   daily |-> Put(ds1, meeting_date,
                       Take(content, k + m)
                       \o ItemsText(action_items, meeting_title)
                       \o Drop(content, k + m))]

\* Returns whether the items were added and the day folder afterwards.
\* (meeting_date is a date of the model, which strptime accepts.)
add_action_items_to_daily(action_items, meeting_date, meeting_title, ds) ==
    IF action_items = <<>> \/ meeting_date \notin DOMAIN ds
    THEN [added |-> FALSE, daily |-> ds]
    ELSE LET content == ds[meeting_date]
             items_text == ItemsText(action_items, meeting_title)
             k == FirstIndex(content, H2("Work"))
             after == Drop(content, k + 1)
             m == NextSectionStart(after)
             new_after == IF m > 0
                          THEN Take(after, m - 1) \o items_text \o Drop(after, m - 1)
                          ELSE RStrip(after) \o items_text \o <<NL>>
         IN  IF k = 0 \/ Contains(content, FromMarker(meeting_title))
             THEN [added |-> FALSE, daily |-> ds]
             ELSE [added |-> TRUE,
                   daily |-> Put(ds, meeting_date,
                                 Take(content, k - 1) \o H2("Work") \o new_after)]

----------------------------------------------------------------------------
(* The day-file operations called on their own: SpecDaily *)

\* what the user wrote under Brain Dump: plain text, text that quotes the
\* Meetings heading, text that quotes the Brain Dump heading
UserTexts == { <<"idea">>,
               <<"fix ", "## ", "Meetings", " template">>,
               <<"see ", "## ", "Brain Dump">> }

BrainDump(user_text) ==
    H2("Brain Dump") \o <<NL>> \o user_text \o <<NL, NL, "---", NL>>

MeetingsSection == H2("Meetings") \o Divider

\* the template with text under Brain Dump
EditedTemplate(user_text) ==
    ReplaceAll(Template(D15), H2("Brain Dump") \o <<NL, NL, "---", NL>>,
               BrainDump(user_text))

\* the same with the Meetings section deleted
WithoutMeetings(user_text) ==
    ReplaceAll(EditedTemplate(user_text), MeetingsSection, <<>>)

\* Brain Dump moved above a Meetings section that ends the document
MeetingsLast(user_text) ==
    <<"# ", D15, NL, NL>> \o BrainDump(user_text) \o <<NL>>
    \o H2("Meetings") \o <<NL, NL>>

\* a second Meetings section pasted in above Brain Dump
TwoMeetings ==
    ReplaceAll(EditedTemplate(<<"idea">>), H2("Brain Dump"),
               MeetingsSection \o H2("Brain Dump"))

\* a day document with neither heading
NoSections == <<"# ", D15, NL, NL, "free text", NL>>

\* the Work section deleted from the template
WithoutWork == ReplaceAll(Template(D15), H2("Work") \o Divider, <<>>)

\* a meeting title that starts with the word of a section heading
Workshop == <<"Work", "shop">>

\* eleven action items, one more than add_action_items_to_daily writes
Items11 == [n \in 1..11 |-> "Review PR"]

DayDocs ==
    { EditedTemplate(u) : u \in UserTexts }
    \cup { WithoutMeetings(u) : u \in UserTexts }
    \cup { MeetingsLast(u) : u \in UserTexts }
    \cup { TwoMeetings, NoSections, WithoutWork }

PathA == BasePath(D15, TeamStandup)
PathB == SuffixPath(D15, TeamStandup, "1000")

InitDaily ==
    /\ files = <<>>
    /\ projects = <<>>
    /\ transcripts = <<>>
    /\ daily \in {<<>>} \cup { D15 :> doc : doc \in DayDocs }
    /\ snapshot = <<>>
    /\ now = 1
    /\ pc = "idle"
    /\ idx = 0
    /\ stats = ZeroStats
    /\ runs = 0
    /\ hist = [op |-> "none"]
    /\ edits = 0
    /\ last = [op |-> "none"]

DailyFrame ==
    /\ hist' = last
    /\ runs' = runs + 1
    /\ UNCHANGED <<projects, transcripts, files, snapshot, now, pc, idx, stats, edits>>

CreateDaily ==
    /\ runs < MaxCalls
    /\ \E date \in {D15, D16} :
        /\ daily' = create_daily_file(date, daily)
        /\ last' = [op |-> "create_daily_file", date |-> date, pre |-> daily,
                    ret |-> date]
    /\ DailyFrame

AddMeeting ==
    /\ runs < MaxCalls
    /\ \E title \in {TeamStandup, <<"Meetings">>, Workshop},
          notes \in {<<>>, FixtureNotes},
          path \in {PathA, PathB} :
        LET a == add_meeting_to_daily(D15, title, notes, path, daily) IN
        /\ daily' = a.daily
        /\ last' = [op |-> "add_meeting_to_daily", date |-> D15,
                    title |-> title, notes |-> notes, path |-> path,
                    pre |-> daily, ret |-> a.added]
    /\ DailyFrame

AddActionItems ==
    /\ runs < MaxCalls
    /\ \E items \in {<<>>, <<"Review PR">>, Items11},
          title \in {TeamStandup, Retro} :
        LET a == add_action_items_to_daily(items, D15, title, daily) IN
        /\ daily' = a.daily
        /\ last' = [op |-> "add_action_items_to_daily", date |-> D15,
                    title |-> title, items |-> items,
                    pre |-> daily, ret |-> a.added]
    /\ DailyFrame

NextDaily ==
    \/ CreateDaily
    \/ AddMeeting
    \/ AddActionItems

SpecDaily == InitDaily /\ [][NextDaily]_vars

----------------------------------------------------------------------------
(* Claims on the day-file operations, checked under SpecDaily *)

IsAddMeeting == last.op = "add_meeting_to_daily"

\* the day document existed with text of the user's under Brain Dump
C8_UserBrainDump ==
    /\ IsAddMeeting
    /\ last.date \in DOMAIN last.pre
    /\ Contains(last.pre[last.date], H2("Brain Dump"))
    /\ SectionText(last.pre[last.date], "Brain Dump")
            # SectionText(Template(last.date), "Brain Dump")

C8_SecondCallSamePath ==
    /\ IsAddMeeting
    /\ hist.op = "add_meeting_to_daily"
    /\ hist.date = last.date
    /\ hist.path = last.path

\* C8: add_meeting_to_daily leaves the text under Brain Dump of an existing
\* day document unchanged, and a second call with the same transcript path
\* returns False and leaves the document unchanged.
C8_BrainDumpUntouched ==
    /\ C8_UserBrainDump =>
        SectionText(daily[last.date], "Brain Dump")
            = SectionText(last.pre[last.date], "Brain Dump")
    /\ C8_SecondCallSamePath =>
        /\ ~last.ret
        /\ daily = last.pre

DailyOps == {"create_daily_file", "add_meeting_to_daily",
             "add_action_items_to_daily"}

\* C9: a day document that exists is never written again from the template:
\* create_daily_file on an existing path writes nothing and returns the path,
\* and the other operations change a document only by editing it.
C9_NeverRecreated ==
    (last.op \in DailyOps) =>
        \A d \in DOMAIN last.pre :
            /\ d \in DOMAIN daily
            /\ (last.op = "create_daily_file" /\ last.date = d) =>
                    (daily = last.pre /\ last.ret = d)
            /\ (daily[d] # last.pre[d]) => (daily[d] # Template(d))

\* create_daily_file is called for a date whose document the user has edited
C9_Witness ==
    /\ last.op = "create_daily_file"
    /\ last.date \in DOMAIN last.pre
    /\ last.pre[last.date] # Template(last.date)

\* the entry spliced in at the first Meetings heading: before the next
\* "\n## " after it, or at the end when there is none
C10_SplicedAtFirst(old, new, entry) ==
    LET k == FirstIndex(old, H2("Meetings"))
        after == Drop(old, k + 1)
        m == FirstIndex(after, <<NL, "## ">>)
    IN  IF m > 0
        THEN new = Take(old, k + m) \o entry \o Drop(old, k + m)
        ELSE new \in { Take(old, k + 1) \o a \o entry \o t :
                        a \in {after, RStrip(after)}, t \in {<<>>, <<NL>>} }

\* C10: whenever "## Meetings" occurs in the day document, once or several
\* times, the entry goes in after its first occurrence, right before the
\* next second-level heading (or at the end), and the rest is unchanged.
C10_SplitAtFirstOccurrence ==
    ( /\ IsAddMeeting
      /\ last.ret
      /\ last.date \in DOMAIN last.pre
      /\ Contains(last.pre[last.date], H2("Meetings")) ) =>
        C10_SplicedAtFirst(last.pre[last.date], daily[last.date],
                           MeetingEntry(last.title, last.notes, last.path))


\* the section the fallback branch builds: heading, entry, divider
C11_NewSection(entry) ==
    H2("Meetings") \o <<NL>> \o entry \o <<NL, "---", NL, NL>>

\* C11: with no "## Meetings" in the day document and a "## Brain Dump"
\* heading, add_meeting_to_daily puts exactly one new section (heading,
\* entry, divider) right before the Brain Dump heading and changes nothing
\* else; with neither heading it appends one new Meetings section at the end.
C11_FallbackInsert ==
    ( /\ IsAddMeeting
      /\ last.ret
      /\ last.date \in DOMAIN last.pre
      /\ ~Contains(last.pre[last.date], H2("Meetings")) ) =>
        LET old == last.pre[last.date]
            new == daily[last.date]
            entry == MeetingEntry(last.title, last.notes, last.path)
            k == FirstIndex(old, H2("Brain Dump"))
        IN  IF k > 0
            THEN new = Take(old, k - 1) \o C11_NewSection(entry)
                        \o Drop(old, k - 1)
            ELSE new = RStrip(old) \o <<NL, NL>> \o H2("Meetings")
                        \o <<NL>> \o entry


IsAddActionItems == last.op = "add_action_items_to_daily"

\* add_action_items_to_daily got items for a date with no day document
C12_ItemsForMissingDay ==
    /\ IsAddActionItems
    /\ last.items # <<>>
    /\ last.date \notin DOMAIN last.pre

\* C12 as stated: add_action_items_to_daily with items for a date whose day
\* document does not exist creates the day document and records the items.
C12_ActionItemsCreateDay ==
    C12_ItemsForMissingDay =>
        /\ last.date \in DOMAIN daily
        /\ Contains(daily[last.date], FromMarker(last.title))

\* C12 amended: the day document is created lazily by add_meeting_to_daily
\* only (from the template, with the entry under Meetings);
\* add_action_items_to_daily for a date without day document returns False
\* and creates nothing.
C12_LazyCreationByMeetingOnly ==
    /\ (IsAddMeeting /\ last.date \notin DOMAIN last.pre) =>
        /\ last.ret
        /\ DOMAIN daily = DOMAIN last.pre \cup {last.date}
        /\ daily[last.date] =
            SpliceUnderMeetings(Template(last.date),
                MeetingEntry(last.title, last.notes, last.path))
    /\ C12_ItemsForMissingDay =>
        /\ ~last.ret
        /\ daily = last.pre

\* items came for a missing day document, then a meeting made the document
C12_Witness ==
    /\ IsAddMeeting
    /\ last.date \notin DOMAIN last.pre
    /\ hist.op = "add_action_items_to_daily"
    /\ hist.items # <<>>
    /\ hist.date = last.date


\* position of the line that is the heading "## <name>", or 0
HeadingLine(content, name) ==
    LET ks == { k \in 1..(Len(content) - 1) :
                    /\ SubSeq(content, k, k + 1) = H2(name)
                    /\ (k = 1 \/ content[k - 1] = NL) }
    IN  IF ks = {} THEN 0 ELSE CHOOSE k \in ks : \A j \in ks : k <= j

\* new is old with the marker of the title and n checkbox lines put inside
\* the Work section: after its heading line and before the divider or the
\* heading that closes it (at the end when nothing closes it)
C13_InsertedInWork(old, new, title, n) ==
    LET w == HeadingLine(old, "Work")
        e == NextSectionStart(Drop(old, w + 1))
        added == <<NL>> \o FromMarker(title) \o <<NL>>
                 \o Flatten([i \in 1..n |-> <<"- [ ] ", "Review PR", NL>>])
    IN  /\ w > 0
        /\ IF e > 0
           THEN \E p \in (w + 1)..(w + e) :
                    new = Take(old, p) \o added \o Drop(old, p)
           ELSE new = RStrip(old) \o added \o <<NL>>

\* the call follows a call that had items for the same date and title
C13_SecondCallSameTitle ==
    /\ IsAddActionItems
    /\ hist.op = "add_action_items_to_daily"
    /\ hist.items # <<>>
    /\ hist.date = last.date
    /\ hist.title = last.title

\* C13: add_action_items_to_daily returns False and writes nothing when the
\* day document already has the marker "*From <title>:*", so a second call
\* with the same date and title leaves the document as the first call left
\* it; a successful call puts the marker and at most 10 checkbox lines
\* inside the Work section.
C13_MarkerGuard ==
    (IsAddActionItems /\ last.date \in DOMAIN last.pre) =>
        /\ Contains(last.pre[last.date], FromMarker(last.title)) =>
                (~last.ret /\ daily = last.pre)
        /\ C13_SecondCallSameTitle => daily = last.pre
        /\ last.ret =>
            C13_InsertedInWork(last.pre[last.date], daily[last.date],
                last.title,
                IF Len(last.items) < 10 THEN Len(last.items) ELSE 10)


----------------------------------------------------------------------------
(* Frontmatter: format_frontmatter and parse_frontmatter (src/utils.py),   *)
(* with yaml.safe_load modelled on the block scalars the code writes.      *)
(* A mapping is a sequence of [key, val]: Python dicts keep their order.   *)
(* A key is the token it is written with ("title: ").                      *)

StrV(toks) == [t |-> "str", v |-> toks, items |-> <<>>]
BoolV(b) == [t |-> "bool", v |-> <<IF b THEN "True" ELSE "False">>, items |-> <<>>]
IntV(tok) == [t |-> "int", v |-> <<tok>>, items |-> <<>>]
DateV(tok) == [t |-> "date", v |-> <<tok>>, items |-> <<>>]
NoneV == [t |-> "none", v |-> <<"None">>, items |-> <<>>]
ListV(items) == [t |-> "list", v |-> <<>>, items |-> items]

Field(key, val) == [key |-> key, val |-> val]

KeyToks == {"date: ", "title: ", "source: ", "granola_id: ",
            "duration_minutes: ", "entry_count: ", "processed: ",
            "attendees: "}

\* plain scalars the YAML 1.1 resolvers give another type than str
BoolToks == {"true", "false", "True", "False", "yes", "no", "on", "off"}
TrueToks == {"true", "True", "yes", "on"}
IntToks == {ToString(n) : n \in 0..200}
DateToks == {D15, D16}
\* looks like a date to the resolver, and datetime.date() rejects it
BadDateToks == {"2026-13-45"}
NullToks == {"null", "Null", "~"}

\* str(value) of Python
PyStr(val) == val.v

HasColonOrQuote(v) == \E n \in 1..Len(v) : v[n] \in {":", "\""}

\* the line(s) format_frontmatter writes for one item of the mapping
FormatField(f) ==
    IF f.key = "attendees: " /\ f.val.t = "list"
    THEN <<"attendees:">>
         \o Flatten([n \in 1..Len(f.val.items) |->
                        <<NL, "  - ">> \o PyStr(f.val.items[n])])
    ELSE IF f.val.t = "bool"
    THEN <<f.key, IF f.val.v = <<"True">> THEN "true" ELSE "false">>
    ELSE IF f.val.t = "str" /\ HasColonOrQuote(f.val.v)
    THEN <<f.key, "\"">> \o f.val.v \o <<"\"">>
    ELSE <<f.key>> \o PyStr(f.val)

format_frontmatter(data) ==
    <<"---">>
    \o Flatten([n \in 1..Len(data) |-> <<NL>> \o FormatField(data[n])])
    \o <<NL, "---">>

\* yaml's reading of one scalar: a double-quoted scalar ends at the next
\* double quote, and text after it is a parse error; a plain scalar is
\* resolved to bool, int, date or null when it looks like one
YamlScalar(toks) ==
    IF toks = <<>> THEN [ok |-> TRUE, val |-> NoneV]
    ELSE IF toks[1] = "\""
    THEN IF /\ Len(toks) >= 2
            /\ toks[Len(toks)] = "\""
            /\ \A n \in 2..(Len(toks) - 1) : toks[n] \notin {"\"", "\\"}
         THEN [ok |-> TRUE, val |-> StrV(SubSeq(toks, 2, Len(toks) - 1))]
         ELSE [ok |-> FALSE, val |-> NoneV]
    ELSE IF Len(toks) = 1 /\ toks[1] \in BoolToks
    THEN [ok |-> TRUE, val |-> BoolV(toks[1] \in TrueToks)]
    ELSE IF Len(toks) = 1 /\ toks[1] \in IntToks
    THEN [ok |-> TRUE, val |-> IntV(toks[1])]
    ELSE IF Len(toks) = 1 /\ toks[1] \in DateToks
    THEN [ok |-> TRUE, val |-> DateV(toks[1])]
    ELSE IF Len(toks) = 1 /\ toks[1] \in BadDateToks
    THEN [ok |-> FALSE, val |-> DateV(toks[1])]
    ELSE IF Len(toks) = 1 /\ toks[1] \in NullToks
    THEN [ok |-> TRUE, val |-> NoneV]
    ELSE IF \E n \in 1..(Len(toks) - 1) : toks[n] = ":" /\ toks[n + 1] = " "
    THEN [ok |-> FALSE, val |-> NoneV]
    ELSE [ok |-> TRUE, val |-> StrV(toks)]

\* what a scalar yaml does not read ends the load with: yaml.YAMLError
\* ("error"), or the ValueError of datetime.date ("raised")
Failure(sc) == IF sc.val.t = "date" THEN "raised" ELSE "error"

\* yaml.safe_load of a block, line by line: res.kind is "dict", "other" (a
\* document that is a scalar, not a mapping), "empty" (None), "error"
\* (yaml.YAMLError) or "raised" (an exception that is no yaml.YAMLError)
RECURSIVE YamlLines(_, _)
YamlLines(lines, res) ==
    IF lines = <<>> \/ res.kind \in {"error", "raised"} THEN res
    ELSE LET l == lines[1]
             rest == Drop(lines, 1)
             n == Len(res.fields)
         IN
         IF l = <<>> THEN YamlLines(rest, res)
         ELSE IF res.kind = "other"
         THEN (IF l[1] \in KeyToks \/ l = <<"attendees:">>
               THEN [res EXCEPT !.kind = "error"]
               ELSE YamlLines(rest, res))
         ELSE IF l[1] \in KeyToks
         THEN LET sc == YamlScalar(Drop(l, 1)) IN
              IF sc.ok
              THEN YamlLines(rest,
                      [kind |-> "dict",
                       fields |-> Append(res.fields, Field(l[1], sc.val))])
              ELSE [res EXCEPT !.kind = Failure(sc)]
         ELSE IF l = <<"attendees:">>
         THEN YamlLines(rest,
                  [kind |-> "dict",
                   fields |-> Append(res.fields, Field("attendees: ", NoneV))])
         ELSE IF /\ l[1] = "  - "
                 /\ n > 0
                 /\ res.fields[n].key = "attendees: "
                 /\ res.fields[n].val.t \in {"none", "list"}
         THEN LET sc == YamlScalar(Drop(l, 1))
                  old == res.fields[n].val.items
              IN  IF sc.ok
                  THEN YamlLines(rest,
                          [res EXCEPT !.fields[n].val =
                                        ListV(Append(old, sc.val))])
                  ELSE [res EXCEPT !.kind = Failure(sc)]
         ELSE IF res.kind = "empty"
         THEN YamlLines(rest, [kind |-> "other", fields |-> <<>>])
         ELSE [res EXCEPT !.kind = "error"]

safe_load(block) ==
    YamlLines(SplitLines(block), [kind |-> "empty", fields |-> <<>>])

\* Returns kind "dict" with the mapping, kind "other" when the first
\* result is not a mapping, and the body; kind "raised" when the call raises.
parse_frontmatter(content) ==
    LET none == [kind |-> "dict", fields |-> <<>>, body |-> content]
        after == Drop(content, 1)
        k == FirstIndex(after, <<"---">>)
        y == safe_load(Take(after, k - 1))
    IN  IF content = <<>> \/ content[1] # "---" THEN none
        ELSE IF k = 0 THEN none
        ELSE IF y.kind = "error" THEN none
        ELSE IF y.kind = "raised"
        THEN [kind |-> "raised", fields |-> <<>>, body |-> <<>>]
        ELSE [kind |-> IF y.kind = "other" THEN "other" ELSE "dict",
              fields |-> y.fields,
              body |-> LStrip(Drop(after, k))]


----------------------------------------------------------------------------
(* format_frontmatter and parse_frontmatter called on their own: SpecFm *)

ColonTitle == <<"1", ":", "1", " with Ana">>
QuoteTitle == <<"Say ", "\"", "hi", "\"">>

\* values of the shapes the codec is for: strings, booleans, integers
FmValues ==
    { StrV(TeamStandup), StrV(ColonTitle), StrV(QuoteTitle), StrV(<<"123">>),
      StrV(<<"true">>), StrV(<<D15>>), StrV(<<"granola">>),
      BoolV(TRUE), BoolV(FALSE), IntV("10") }

FmKeys == {"date: ", "title: ", "processed: ", "duration_minutes: "}

AttendeeLists == { ListV(<<StrV(<<"ana@x.com">>)>>),
                   ListV(<<StrV(<<"Ana">>), StrV(<<"Bo">>)>>) }

\* mappings of up to two scalar items, with or without an attendees list
Mappings ==
    LET scalars ==
            {<<>>}
            \cup { <<Field(k, v)>> : k \in FmKeys, v \in FmValues }
            \cup { <<Field(k1, v1), Field(k2, v2)>> :
                     k1 \in {"date: ", "title: "}, v1 \in FmValues,
                     k2 \in {"processed: ", "duration_minutes: "},
                     v2 \in FmValues }
    IN  scalars
        \cup { Append(m, Field("attendees: ", a)) :
                 m \in { x \in scalars : Len(x) <= 1 }, a \in AttendeeLists }

\* documents parse_frontmatter is given: without delimiter, with one
\* delimiter, with a block that is a note and no mapping, with a block yaml
\* rejects, with an empty block, and a transcript document
FmDocs ==
    { <<"# ", "Title", NL, "text">>,
      <<"---", NL, "title: ", "Team Standup", NL>>,
      <<"---", NL, "just a note", NL, "---", NL, "body">>,
      <<"---", NL, "title: ">> \o FmValue(QuoteTitle)
            \o <<NL, "---", NL, "body">>,
      <<"---", NL, "---", NL, "body">>,
      <<"---", NL, "date: ", "2026-13-45", NL, "---", NL, "body">>,
      TranscriptContent(IdD1, Doc(TeamStandup, TsA, <<>>), EntriesNoTs, D15) }

InitFm ==
    /\ files = <<>>
    /\ projects = <<>>
    /\ transcripts = <<>>
    /\ daily = <<>>
    /\ snapshot = <<>>
    /\ now = 1
    /\ pc = "idle"
    /\ idx = 0
    /\ stats = ZeroStats
    /\ runs = 0
    /\ hist = [op |-> "none"]
    /\ edits = 0
    /\ last = [op |-> "none"]

FmFrame ==
    /\ hist' = [op |-> last.op]
    /\ runs' = runs + 1
    /\ UNCHANGED <<files, projects, transcripts, daily, snapshot, now, pc, idx,
                  stats, edits>>

\* parse_frontmatter(format_frontmatter(m))
RoundTrip ==
    /\ runs < MaxCalls
    /\ \E m \in Mappings :
        last' = [op |-> "round_trip", m |-> m,
                 text |-> format_frontmatter(m),
                 back |-> parse_frontmatter(format_frontmatter(m))]
    /\ FmFrame

ParseDoc ==
    /\ runs < MaxCalls
    /\ \E content \in FmDocs :
        last' = [op |-> "parse_frontmatter", content |-> content,
                 ret |-> parse_frontmatter(content)]
    /\ FmFrame

NextFm ==
    \/ RoundTrip
    \/ ParseDoc

SpecFm == InitFm /\ [][NextFm]_vars

\* C17: for every mapping whose values are strings, booleans, integers or
\* (under attendees) a list of strings, parse_frontmatter of
\* format_frontmatter gives the mapping back, same keys in the same order,
\* same values of the same types, and an empty body.
C17_RoundTrip ==
    (last.op = "round_trip") =>
        /\ last.back.kind = "dict"
        /\ last.back.fields = last.m
        /\ last.back.body = <<>>

\* the document has no opening delimiter, has fewer than two delimiters, or
\* its block is no key-value mapping
C18_NoFrontmatter(content) ==
    \/ content = <<>>
    \/ content[1] # "---"
    \/ CountOcc(content, <<"---">>) < 2
    \/ safe_load(FrontmatterBlock(content)).kind \in {"other", "error"}

\* C18: parse_frontmatter always returns a mapping as its first result, and
\* for a document without opening delimiter, with fewer than two
\* delimiters, or with a block that is no key-value mapping it returns the
\* empty mapping and the text unchanged.
C18_AlwaysAMapping ==
    (last.op = "parse_frontmatter") =>
        /\ last.ret.kind = "dict"
        /\ C18_NoFrontmatter(last.content) =>
            (last.ret.fields = <<>> /\ last.ret.body = last.content)


----------------------------------------------------------------------------
(* src/process_transcripts.py: update_frontmatter, analyze_transcript, the *)
(* merges and process_transcript                                           *)

\* frontmatter.get(key, default)
FmGet(fields, key, default) ==
    LET ns == { n \in 1..Len(fields) : fields[n].key = key } IN
    IF ns = {} THEN default
    ELSE fields[CHOOSE n \in ns : \A j \in ns : j <= n].val

\* bool(value) of Python
Truthy(val) ==
    CASE val.t = "bool" -> val.v = <<"True">>
      [] val.t = "int" -> val.v # <<"0">>
      [] val.t = "str" -> val.v # <<>>
      [] val.t = "none" -> FALSE
      [] val.t = "list" -> val.items # <<>>
      [] OTHER -> TRUE

\* frontmatter.update({"processed": True})
SetProcessed(fields) ==
    IF \E n \in 1..Len(fields) : fields[n].key = "processed: "
    THEN [n \in 1..Len(fields) |->
            IF fields[n].key = "processed: "
            THEN Field("processed: ", BoolV(TRUE)) ELSE fields[n]]
    ELSE Append(fields, Field("processed: ", BoolV(TRUE)))

\* update_frontmatter(content, {"processed": True}): the new content, or
\* raised when the call raises
update_frontmatter(content) ==
    LET same == [raised |-> FALSE, content |-> content]
        after == Drop(content, 1)
        k == FirstIndex(after, <<"---">>)
        y == safe_load(Take(after, k - 1))
        fm == SetProcessed(y.fields)
    IN  IF content = <<>> \/ content[1] # "---" \/ k = 0 THEN same
        ELSE IF y.kind = "error" THEN same
        ELSE IF y.kind \in {"raised", "other"}
        THEN [raised |-> TRUE, content |-> content]
        ELSE [raised |-> FALSE,
              content |->
                <<"---", NL>>
                \o JoinWith([n \in 1..Len(fm) |-> FormatField(fm[n])], <<NL>>)
                \o <<NL, "---">> \o Drop(after, k)]

extract_transcript_section(content) ==
    LET k == FirstIndex(content, H2("Transcript")) IN
    IF k > 0 THEN Strip(Drop(content, k + 1)) ELSE content

EmptyAnalysis ==
    [is_dict |-> TRUE, action_items |-> <<>>, project_updates |-> <<>>,
     summary |-> <<>>]

\* The response of the text-generation call: the call raises ("api_error")
\* or returns text, with or without a markdown fence around it, that
\* json.loads reads (json_ok, giving value) or rejects.
analyze_transcript(response) ==
    IF response.kind = "api_error" THEN EmptyAnalysis
    ELSE IF ~response.json_ok THEN EmptyAnalysis
    ELSE response.value

ProjectMarker(meeting_date, meeting_title) ==
    <<"#", "## ">> \o meeting_date \o <<" - ">> \o meeting_title

ProjectEntry(project_update, meeting_date, meeting_title) ==
    <<NL>> \o ProjectMarker(meeting_date, meeting_title) \o <<NL>>
    \o project_update.summary \o <<NL>>

\* Returns raised (KeyError: the update has no "file"), whether the file
\* was changed, and the project files afterwards.
update_project_file(project_update, meeting_date, meeting_title, ps) ==
    LET same == [raised |-> FALSE, changed |-> FALSE, projects |-> ps]
        content == ps[project_update.file]
        entry == ProjectEntry(project_update, meeting_date, meeting_title)
        under(name) == ReplaceAll(content, H2(name),
                                  H2(name) \o <<NL>> \o entry)
        new == IF Contains(content, H2("Meeting Notes"))
               THEN under("Meeting Notes")
               ELSE IF Contains(content, H2("Updates")) THEN under("Updates")
               ELSE RStrip(content) \o <<NL, NL>> \o H2("Meeting Notes")
                        \o <<NL>> \o entry
    IN  IF ~project_update.has_file THEN [same EXCEPT !.raised = TRUE]
        ELSE IF project_update.file \notin DOMAIN ps THEN same
        ELSE IF Contains(content, ProjectMarker(meeting_date, meeting_title))
        THEN same
        ELSE [raised |-> FALSE, changed |-> TRUE,
              projects |-> Put(ps, project_update.file, new)]

\* the for loop over analysis["project_updates"]
RECURSIVE ApplyProjectUpdates(_, _, _, _)
ApplyProjectUpdates(updates, meeting_date, meeting_title, ps) ==
    IF updates = <<>> THEN [raised |-> FALSE, projects |-> ps]
    ELSE LET u == update_project_file(updates[1], meeting_date,
                                      meeting_title, ps)
         IN  IF u.raised THEN [raised |-> TRUE, projects |-> ps]
             ELSE ApplyProjectUpdates(Drop(updates, 1), meeting_date,
                                      meeting_title, u.projects)

\* "\n".join(f"- {line}" for line in summary.split("\n") if line.strip())
SummaryText(summary) ==
    LET lines == SplitLines(summary) IN
    JoinWith(Flatten([n \in 1..Len(lines) |->
                        IF Strip(lines[n]) = <<>> THEN <<>>
                        ELSE << <<"- ">> \o lines[n] >>]),
             <<NL>>)

\* Returns whether the notes were replaced and the transcripts folder.
update_notes_section(transcript_path, summary, fs) ==
    LET content == fs[transcript_path] IN
    IF /\ ~Contains(content, <<"*No AI notes available">>)
       /\ ~Contains(content, NotesPending)
    THEN [changed |-> FALSE, files |-> fs]
    ELSE IF summary = <<>> THEN [changed |-> FALSE, files |-> fs]
    ELSE IF Contains(content, NotesPlaceholder)
    THEN [changed |-> TRUE,
          files |-> Put(fs, transcript_path,
                        ReplaceAll(content, NotesPlaceholder, summary))]
    ELSE [changed |-> FALSE, files |-> fs]

\* step 1 of process_transcript: add_action_items_to_daily with the date
\* and the title of the frontmatter; datetime.strptime raises TypeError for
\* a date that is no str and ValueError (caught) for a str that is no date
AddItemsStep(action_items, date_val, title_val, ds) ==
    IF action_items = <<>>
    THEN [raised |-> FALSE, daily |-> ds]
    ELSE IF date_val.t # "str" THEN [raised |-> TRUE, daily |-> ds]
    ELSE IF Len(date_val.v) = 1 /\ date_val.v[1] \in DateToks
    THEN [raised |-> FALSE,
          daily |-> add_action_items_to_daily(action_items, date_val.v[1],
                                              PyStr(title_val), ds).daily]
    ELSE [raised |-> FALSE, daily |-> ds]

\* process_transcript(transcript_path, config, client): whether it raised,
\* what it returned, whether it called analyze_transcript, and the vault
\* afterwards (with what was written before an exception)
process_transcript(transcript_path, response, fs, ds, ps) ==
    LET out(raised, ret, attempted, fs2, ds2, ps2) ==
            [raised |-> raised, ret |-> ret, attempted |-> attempted,
             files |-> fs2, daily |-> ds2, projects |-> ps2]
        content == fs[transcript_path]
        p == parse_frontmatter(content)
        title == FmGet(p.fields, "title: ", StrV(<<"Unknown Meeting">>))
        meeting_date == FmGet(p.fields, "date: ", StrV(<<>>))
        transcript_text == extract_transcript_section(p.body)
        analysis == analyze_transcript(response)
        s1 == AddItemsStep(analysis.action_items, meeting_date, title, ds)
        s2 == ApplyProjectUpdates(analysis.project_updates,
                                  PyStr(meeting_date), PyStr(title), ps)
        s3 == IF analysis.summary # <<>>
              THEN update_notes_section(transcript_path,
                                        SummaryText(analysis.summary), fs).files
              ELSE fs
        u == update_frontmatter(content)
    IN  IF p.kind \in {"raised", "other"}
        THEN out(TRUE, FALSE, FALSE, fs, ds, ps)
        ELSE IF Truthy(FmGet(p.fields, "processed: ", BoolV(FALSE)))
        THEN out(FALSE, FALSE, FALSE, fs, ds, ps)
        ELSE IF transcript_text = <<>> \/ TextLen(transcript_text) < 100
        THEN out(FALSE, FALSE, FALSE, fs, ds, ps)
        ELSE IF ~analysis.is_dict THEN out(TRUE, FALSE, TRUE, fs, ds, ps)
        ELSE IF s1.raised THEN out(TRUE, FALSE, TRUE, fs, ds, ps)
        ELSE IF s2.raised
        THEN out(TRUE, FALSE, TRUE, fs, s1.daily, s2.projects)
        ELSE IF u.raised THEN out(TRUE, FALSE, TRUE, s3, s1.daily, s2.projects)
        ELSE out(FALSE, TRUE, TRUE, Put(s3, transcript_path, u.content),
                 s1.daily, s2.projects)


----------------------------------------------------------------------------
(* The batch of process_transcripts.py (main, --all): SpecProc *)

\* one entry of more than 100 characters
EntriesLong == << Entry(LongText, TsA, TsB) >>

Kickoff == <<"Kickoff">>
SyncTitle == <<"Sync">>

\* the transcript document generate_transcript_file writes for a record
Written(doc_id, doc, entries) ==
    LET g == generate_transcript_file(doc_id, doc, entries, Clock[1], <<>>)
    IN  [path |-> g.path, content |-> g.files[g.path]]

\* documents of the transcripts folder: without notes, with notes, with a
\* transcript under 100 characters, with a title that holds double quotes,
\* and one whose date the user has put in quotes
ProcDocs ==
    { Written(IdD1, Doc(TeamStandup, TsA, <<>>), EntriesLong),
      Written(IdD2, Doc(Retro, TsA, FixtureNotes), EntriesLong),
      Written(IdD1, Doc(SyncTitle, TsA, <<>>), EntriesNoTs),
      Written(IdD2, Doc(QuoteTitle, TsA, <<>>), EntriesLong),
      LET w == Written(IdAB, Doc(Kickoff, TsA, <<>>), EntriesLong) IN
      [w EXCEPT !.content = ReplaceAll(@, <<"date: ", D15>>,
                                       <<"date: ", "\"", D15, "\"">>)] }

\* the file names of the model as sorted() orders them
PathOrder ==
    << BasePath(D15, Kickoff), BasePath(D15, Retro),
       BasePath(D15, sanitize_filename(QuoteTitle)),
       BasePath(D15, SyncTitle), BasePath(D15, TeamStandup) >>

\* get_unprocessed_transcripts(config, 0): the files that hold the text
\* "processed: false", sorted
get_unprocessed_transcripts(fs) ==
    Flatten([n \in 1..Len(PathOrder) |->
                IF /\ PathOrder[n] \in DOMAIN fs
                   /\ Contains(fs[PathOrder[n]], <<"processed: ", "false">>)
                THEN <<PathOrder[n]>> ELSE <<>>])

ProjFile == <<"1-projects/mmm/context.md">>

ProjContent == <<"# ", "MMM", NL, NL, "## ", "Meeting Notes", NL, "kickoff", NL>>

ProjectUpdate(file) ==
    [has_file |-> TRUE, file |-> file, summary |-> <<"- ", "scope agreed">>]

\* an update object without the "file" key
NoFileUpdate == [has_file |-> FALSE, file |-> <<>>, summary |-> <<"- ", "x">>]

Analyses ==
    { [is_dict |-> TRUE, action_items |-> a, project_updates |-> u,
       summary |-> m] :
        a \in {<<>>, <<"Review PR">>},
        u \in {<<>>, <<ProjectUpdate(ProjFile)>>, <<NoFileUpdate>>},
        m \in {<<>>, <<"Decided on scope">>} }

\* a JSON value that is no object
NonDictAnalysis == [EmptyAnalysis EXCEPT !.is_dict = FALSE]

Responses ==
    { [kind |-> "api_error", json_ok |-> FALSE, value |-> EmptyAnalysis],
      [kind |-> "text", json_ok |-> FALSE, value |-> EmptyAnalysis],
      [kind |-> "text", json_ok |-> TRUE, value |-> NonDictAnalysis] }
    \cup { [kind |-> "text", json_ok |-> TRUE, value |-> a] : a \in Analyses }

ProcVaults ==
    { d.path :> d.content : d \in ProcDocs }
    \cup { (d.path :> d.content) @@ (e.path :> e.content) :
             d \in ProcDocs, e \in ProcDocs }

InitProc ==
    /\ files \in ProcVaults
    /\ daily \in { <<>>, D15 :> Template(D15) }
    /\ projects \in { <<>>, ProjFile :> ProjContent }
    /\ transcripts = <<>>
    /\ snapshot = <<>>
    /\ now = 1
    /\ pc = "idle"
    /\ idx = 0
    /\ stats = [processed |-> 0]
    /\ runs = 0
    /\ hist = [op |-> "none"]
    /\ edits = 0
    /\ last = [op |-> "none"]

\* main(): the list of unprocessed transcripts is taken
ProcStart ==
    /\ pc = "idle"
    /\ runs < MaxRuns
    /\ pc' = "batch"
    /\ transcripts' = get_unprocessed_transcripts(files)
    /\ idx' = 1
    /\ stats' = [processed |-> 0]
    /\ runs' = runs + 1
    /\ hist' = [op |-> last.op]
    /\ last' = [op |-> "proc_start"]
    /\ UNCHANGED <<files, daily, projects, snapshot, now, edits>>

\* one pass of main()'s for loop: process_transcript inside try / except
ProcOne ==
    /\ pc = "batch"
    /\ idx <= Len(transcripts)
    /\ \E response \in Responses :
        \E r \in { process_transcript(transcripts[idx], response,
                                      files, daily, projects) } :
            /\ files' = r.files
            /\ daily' = r.daily
            /\ projects' = r.projects
            /\ stats' = [processed |-> IF ~r.raised /\ r.ret
                                       THEN stats.processed + 1
                                       ELSE stats.processed]
            /\ last' = [op |-> "process_transcript",
                        path |-> transcripts[idx], response |-> response,
                        pre |-> [files |-> files, daily |-> daily,
                                 projects |-> projects],
                        raised |-> r.raised, ret |-> r.ret,
                        attempted |-> r.attempted, n |-> idx]
    /\ idx' = idx + 1
    /\ hist' = [op |-> last.op]
    /\ UNCHANGED <<transcripts, snapshot, now, pc, runs, edits>>

\* the loop is over
ProcEnd ==
    /\ pc = "batch"
    /\ idx > Len(transcripts)
    /\ pc' = "idle"
    /\ hist' = [op |-> last.op]
    /\ last' = [op |-> "proc_end", processed |-> stats.processed,
                found |-> Len(transcripts)]
    /\ UNCHANGED <<files, daily, projects, transcripts, snapshot, now, idx,
                   stats, runs, edits>>

NextProc ==
    \/ ProcStart
    \/ ProcOne
    \/ ProcEnd

SpecProc == InitProc /\ [][NextProc]_vars

IsProcess == last.op = "process_transcript"

\* the frontmatter of the document says processed: true
MarkedProcessed(content) ==
    LET p == parse_frontmatter(content) IN
    /\ p.kind = "dict"
    /\ FmGet(p.fields, "processed: ", BoolV(FALSE)) = BoolV(TRUE)

\* C14: once process_transcript has attempted the analysis of an
\* unprocessed transcript document, the document on disk has processed: true
\* in its frontmatter, whatever the analysis returned and whether or not
\* the merges succeeded.
C14_ProcessedOnceAttempted ==
    (IsProcess /\ last.attempted) => MarkedProcessed(files[last.path])

\* the external call raised or returned text that is no JSON
C15_CallFailed ==
    /\ IsProcess
    /\ last.attempted
    /\ (last.response.kind = "api_error" \/ ~last.response.json_ok)

\* C15: when the external call raises or returns unparsable output,
\* analyze_transcript returns the empty analysis; process_transcript then
\* changes no day or project document, marks the transcript processed, and
\* the batch goes on to the next transcript.
C15_FailedCallStillMarks ==
    C15_CallFailed =>
        /\ analyze_transcript(last.response) = EmptyAnalysis
        /\ daily = last.pre.daily
        /\ projects = last.pre.projects
        /\ MarkedProcessed(files[last.path])
        /\ ~last.raised
        /\ pc = "batch" /\ idx = last.n + 1

\* the Notes section of the document held the placeholder sentence and the
\* analysis came with a summary
C16_Case ==
    /\ IsProcess
    /\ last.attempted
    /\ Contains(SectionText(last.pre.files[last.path], "Notes"),
                NotesPlaceholder)
    /\ last.response.json_ok
    /\ last.response.value.is_dict
    /\ last.response.value.summary # <<>>

\* C16: after process_transcript has handled a document whose Notes section
\* held the placeholder, with an analysis that has a summary, the document
\* on disk has the summary in place of the placeholder and processed: true.
C16_SummaryKept ==
    C16_Case =>
        /\ Contains(SectionText(files[last.path], "Notes"),
                    SummaryText(last.response.value.summary))
        /\ ~Contains(files[last.path], NotesPlaceholder)
        /\ MarkedProcessed(files[last.path])


----------------------------------------------------------------------------
(* Claims on the loop of sync_transcripts, checked under Spec *)

\* the records of the snapshot whose handling raises inside the try block
RaisingCount ==
    Cardinality({ n \in 1..Len(snapshot) :
                    Eligible(snapshot[n]) /\ Raises(snapshot[n]) })

\* C19: an exception raised while sync_transcripts handles one record is
\* caught and adds 1 to errors, the loop goes on and every later record is
\* handled; a transcript without entry in the documents mapping is skipped
\* and touches no counter and no file.
C19_ErrorsDoNotStopLoop ==
    /\ (last.op = "sync_record") =>
        LET rec == snapshot[last.n] IN
        /\ (Eligible(rec) /\ Raises(rec)) =>
            /\ last.raised
            /\ files = last.pre.files /\ daily = last.pre.daily
        /\ last.raised =>
            /\ stats.errors = last.pre.stats.errors + 1
            /\ pc = "loop" /\ idx = last.n + 1
        /\ (rec.entries # <<>> /\ ~rec.has_doc) =>
            /\ stats = last.pre.stats
            /\ files = last.pre.files /\ daily = last.pre.daily
            /\ pc = "loop" /\ idx = last.n + 1
    /\ (last.op = "sync_return") =>
        /\ last.ret.errors >= RaisingCount

\* the first record raised, the loop went on and created the second's file
C19_Witness ==
    /\ last.op = "sync_return"
    /\ Len(snapshot) = 2
    /\ Eligible(snapshot[1]) /\ Raises(snapshot[1])
    /\ last.ret.errors = 1
    /\ last.ret.transcripts_created = 1


----------------------------------------------------------------------------
(* sync_transcripts interrupted between its file writes: SpecCrash.  The   *)
(* loop body is taken in two steps, one for each write: the transcript     *)
(* file (generate_transcript_file) and the day document                    *)
(* (add_meeting_to_daily).  An interruption (KeyboardInterrupt, kill) is   *)
(* no Exception: the except branch does not see it and the run ends.       *)

CrashRecOptions(id) ==
    { Rec(id, Doc(t, TsA, n), e) :
        t \in {TeamStandup, Retro}, n \in {<<>>, FixtureNotes},
        e \in {EntriesNoTs, EntriesTs} }

CrashSnapshots ==
    UNION { { s \in [1..n -> UNION {CrashRecOptions(IdSeq[k]) : k \in 1..n}] :
                \A k \in 1..n : s[k].id = IdSeq[k] } : n \in 1..MaxRecords }

InitCrash ==
    /\ files = <<>>
    /\ projects = <<>>
    /\ transcripts = <<>>
    /\ daily = <<>>
    /\ snapshot \in CrashSnapshots
    /\ now = 1
    /\ pc = "idle"
    /\ idx = 0
    /\ stats = ZeroStats
    /\ runs = 0
    /\ hist = NoHist
    /\ edits = 0
    /\ last = [op |-> "init"]

\* the loop body up to the return of generate_transcript_file
TranscriptStep ==
    /\ pc = "loop"
    /\ idx <= Len(snapshot)
    /\ LET rec == snapshot[idx]
           g == generate_transcript_file(rec.id, rec.doc, rec.entries,
                                         Clock[now], files)
       IN  IF ~Eligible(rec)
           THEN /\ idx' = idx + 1
                /\ last' = [op |-> "skipped_record", n |-> idx]
                /\ UNCHANGED <<files, stats, pc>>
           ELSE IF Raises(rec)
           THEN /\ idx' = idx + 1
                /\ stats' = [stats EXCEPT !.errors = @ + 1]
                /\ last' = [op |-> "raised", n |-> idx]
                /\ UNCHANGED <<files, pc>>
           ELSE IF g.was_created
           THEN /\ files' = g.files
                /\ stats' = [stats EXCEPT !.transcripts_created = @ + 1]
                /\ pc' = "daily"
                /\ last' = [op |-> "transcript_written", n |-> idx,
                            path |-> g.path]
                /\ UNCHANGED idx
           ELSE /\ idx' = idx + 1
                /\ stats' = [stats EXCEPT !.transcripts_skipped = @ + 1]
                /\ last' = [op |-> "transcript_skipped", n |-> idx,
                            path |-> g.path]
                /\ UNCHANGED <<files, pc>>
    /\ UNCHANGED <<projects, transcripts, daily, snapshot, now, runs, hist, edits>>

\* the rest of the loop body: add_meeting_to_daily for the file just written
DailyStep ==
    /\ pc = "daily"
    /\ LET rec == snapshot[idx]
           meeting_dt == get_meeting_date(rec.entries, rec.doc, Clock[now])
           a == add_meeting_to_daily(meeting_dt.date, rec.doc.title,
                                     DailyNotes(rec.doc), last.path, daily)
       IN  /\ daily' = a.daily
           /\ stats' = [stats EXCEPT
                  !.daily_entries_added = IF a.added THEN @ + 1 ELSE @,
                  !.errors = IF a.raised THEN @ + 1 ELSE @]
    /\ pc' = "loop"
    /\ idx' = idx + 1
    /\ last' = [op |-> "daily_written", n |-> idx, path |-> last.path]
    /\ UNCHANGED <<projects, transcripts, files, snapshot, now, runs, hist, edits>>

\* the run is interrupted: nothing more is written, nothing is returned
Interrupt ==
    /\ pc \in {"loop", "daily"}
    /\ edits < MaxEdits
    /\ pc' = "idle"
    /\ edits' = edits + 1
    /\ last' = [op |-> "interrupted", at |-> pc,
                pre |-> [files |-> files, daily |-> daily]]
    /\ UNCHANGED <<projects, transcripts, files, daily, snapshot, now, idx,
                   stats, runs, hist>>

NextCrash ==
    \/ SyncStart
    \/ TranscriptStep
    \/ DailyStep
    \/ Interrupt
    \/ SyncReturn

SpecCrash == InitCrash /\ [][NextCrash]_vars

\* the record has its transcript document, and the day document of that
\* document's date holds the link to it
C20_Linked(rec) ==
    \E p \in DOMAIN files :
        /\ FmIdentity(files[p]) = rec.id
        /\ LET d == FmField(files[p], "date: ") IN
            /\ Len(d) = 1
            /\ d[1] \in DOMAIN daily
            /\ Contains(daily[d[1]], LinkToken(p))

\* C20: after an interruption of a sync run the files written before it
\* are intact, and a later uninterrupted run over the same snapshot leaves
\* the vault as one uninterrupted run would: every eligible record has its
\* transcript document and its day document holds the link to it.
C20_RetryCompletes ==
    /\ (last.op = "interrupted") =>
        (files = last.pre.files /\ daily = last.pre.daily)
    /\ (last.op = "sync_return" /\ edits > 0) =>
        \A n \in 1..Len(snapshot) :
            (Eligible(snapshot[n]) /\ ~Raises(snapshot[n])) =>
                C20_Linked(snapshot[n])


----------------------------------------------------------------------------
(* Two runs of sync_transcripts over the same snapshot at the same time:   *)
(* SpecRace.  Each run is a process with its own position, counters and    *)
(* local values; here pc, idx, stats and hist hold one value for each run. *)
(* A step is one access to the file system: the existence check and read   *)
(* of generate_transcript_file, its write, the existence check of          *)
(* add_meeting_to_daily, create_daily_file, the read of the day document   *)
(* and its write.                                                          *)

Procs == {"manual", "automatic"}

\* snapshots whose records have different titles, so that no two records
\* ask for the same file name
RaceSnapshots ==
    { s \in CrashSnapshots :
        \A i, j \in 1..Len(s) : i # j => s[i].doc.title # s[j].doc.title }

NoLocals == [path |-> <<>>, content |-> <<>>]

InitRace ==
    /\ files = <<>>
    /\ projects = <<>>
    /\ transcripts = <<>>
    /\ daily = <<>>
    /\ snapshot \in RaceSnapshots
    /\ now = 1
    /\ pc = [p \in Procs |-> "idle"]
    /\ idx = [p \in Procs |-> 0]
    /\ stats = [p \in Procs |-> ZeroStats]
    /\ runs = 0
    /\ hist = [p \in Procs |-> NoLocals]
    /\ edits = 0
    /\ last = [op |-> "init"]

RaceFrame == UNCHANGED <<projects, transcripts, snapshot, now, edits>>

\* the date of the day document of a record
RaceDate(rec) == get_meeting_date(rec.entries, rec.doc, Clock[now]).date

RaceStart(p) ==
    /\ pc[p] = "idle"
    /\ pc' = [pc EXCEPT ![p] = "loop"]
    /\ idx' = [idx EXCEPT ![p] = 1]
    /\ last' = [op |-> "sync_start", p |-> p]
    /\ UNCHANGED <<files, daily, stats, hist, runs>>
    /\ RaceFrame

\* the top of the loop body up to the checks of generate_transcript_file:
\* file_path.exists(), read_text() and the search for the granola_id
RaceCheck(p) ==
    /\ pc[p] = "loop"
    /\ idx[p] <= Len(snapshot)
    /\ \E rec \in {snapshot[idx[p]]} :
        IF ~Eligible(rec)
        THEN /\ idx' = [idx EXCEPT ![p] = @ + 1]
             /\ UNCHANGED <<pc, stats, hist>>
        ELSE IF Raises(rec)
        THEN /\ idx' = [idx EXCEPT ![p] = @ + 1]
             /\ stats' = [stats EXCEPT ![p].errors = @ + 1]
             /\ UNCHANGED <<pc, hist>>
        ELSE \E g \in {generate_transcript_file(rec.id, rec.doc, rec.entries,
                                                Clock[now], files)} :
             IF g.was_created
             THEN /\ pc' = [pc EXCEPT ![p] = "write_transcript"]
                  /\ hist' = [hist EXCEPT ![p].path = g.path]
                  /\ UNCHANGED <<idx, stats>>
             ELSE /\ idx' = [idx EXCEPT ![p] = @ + 1]
                  /\ stats' = [stats EXCEPT ![p].transcripts_skipped = @ + 1]
                  /\ UNCHANGED <<pc, hist>>
    /\ last' = [op |-> "check", p |-> p]
    /\ UNCHANGED <<files, daily, runs>>
    /\ RaceFrame

\* file_path.write_text(content)
RaceWriteTranscript(p) ==
    /\ pc[p] = "write_transcript"
    /\ \E rec \in {snapshot[idx[p]]} :
        files' = Put(files, hist[p].path,
                     TranscriptContent(rec.id, rec.doc, rec.entries,
                                       RaceDate(rec)))
    /\ stats' = [stats EXCEPT ![p].transcripts_created = @ + 1]
    /\ pc' = [pc EXCEPT ![p] = "daily_exists"]
    /\ last' = [op |-> "write_transcript", p |-> p]
    /\ UNCHANGED <<daily, idx, hist, runs>>
    /\ RaceFrame

\* add_meeting_to_daily: if not daily_path.exists()
RaceDailyExists(p) ==
    /\ pc[p] = "daily_exists"
    /\ pc' = [pc EXCEPT ![p] =
                IF RaceDate(snapshot[idx[p]]) \in DOMAIN daily
                THEN "read_daily" ELSE "create_daily"]
    /\ last' = [op |-> "daily_exists", p |-> p]
    /\ UNCHANGED <<files, daily, idx, stats, hist, runs>>
    /\ RaceFrame

\* create_daily_file(meeting_dt, config)
RaceCreateDaily(p) ==
    /\ pc[p] = "create_daily"
    /\ daily' = create_daily_file(RaceDate(snapshot[idx[p]]), daily)
    /\ pc' = [pc EXCEPT ![p] = "read_daily"]
    /\ last' = [op |-> "create_daily", p |-> p]
    /\ UNCHANGED <<files, idx, stats, hist, runs>>
    /\ RaceFrame

\* content = daily_path.read_text()
RaceReadDaily(p) ==
    /\ pc[p] = "read_daily"
    /\ hist' = [hist EXCEPT ![p].content = daily[RaceDate(snapshot[idx[p]])]]
    /\ pc' = [pc EXCEPT ![p] = "write_daily"]
    /\ last' = [op |-> "read_daily", p |-> p]
    /\ UNCHANGED <<files, daily, idx, stats, runs>>
    /\ RaceFrame

\* the rest of add_meeting_to_daily, on the content this run has read:
\* the link check, the new content and daily_path.write_text
RaceWriteDaily(p) ==
    /\ pc[p] = "write_daily"
    /\ \E rec \in {snapshot[idx[p]]} :
       \E d \in {RaceDate(rec)} :
       \E a \in {add_meeting_to_daily(d, rec.doc.title, DailyNotes(rec.doc),
                                      hist[p].path, d :> hist[p].content)} :
        /\ daily' = IF a.added THEN Put(daily, d, a.daily[d]) ELSE daily
        /\ stats' = [stats EXCEPT
               ![p].daily_entries_added = IF a.added THEN @ + 1 ELSE @,
               ![p].errors = IF a.raised THEN @ + 1 ELSE @]
    /\ idx' = [idx EXCEPT ![p] = @ + 1]
    /\ hist' = [hist EXCEPT ![p] = NoLocals]
    /\ pc' = [pc EXCEPT ![p] = "loop"]
    /\ last' = [op |-> "write_daily", p |-> p]
    /\ UNCHANGED <<files, runs>>
    /\ RaceFrame

\* return stats
RaceReturn(p) ==
    /\ pc[p] = "loop"
    /\ idx[p] > Len(snapshot)
    /\ pc' = [pc EXCEPT ![p] = "done"]
    /\ runs' = runs + 1
    /\ last' = [op |-> "sync_return", p |-> p]
    /\ UNCHANGED <<files, daily, idx, stats, hist>>
    /\ RaceFrame

NextRace ==
    \E p \in Procs :
        \/ RaceStart(p)
        \/ RaceCheck(p)
        \/ RaceWriteTranscript(p)
        \/ RaceDailyExists(p)
        \/ RaceCreateDaily(p)
        \/ RaceReadDaily(p)
        \/ RaceWriteDaily(p)
        \/ RaceReturn(p)

SpecRace == InitRace /\ [][NextRace]_vars

\* the transcript documents that hold the id of the record
C21_DocsOf(rec) == { p \in DOMAIN files : FmIdentity(files[p]) = rec.id }

\* C21: when two sync runs over the same snapshot, interleaved in any way,
\* have both returned, the vault holds exactly one transcript document for
\* each eligible record and the day document holds the link token of that
\* document exactly once.
C21_RaceTolerated ==
    (\A p \in Procs : pc[p] = "done") =>
        \A n \in 1..Len(snapshot) :
            Eligible(snapshot[n]) =>
                /\ Cardinality(C21_DocsOf(snapshot[n])) = 1
                /\ \A t \in C21_DocsOf(snapshot[n]) :
                    /\ RaceDate(snapshot[n]) \in DOMAIN daily
                    /\ CountOcc(daily[RaceDate(snapshot[n])], LinkToken(t)) = 1


----------------------------------------------------------------------------
(* calculate_duration, get_transcript_text and the frontmatter numbers of  *)
(* a transcript document, called on lists of entries: SpecText             *)

\* lists of one to three entries with every pair of first start timestamp
\* and last end timestamp, the empty list included
DurEntries ==
    {<<>>}
    \cup { <<Entry("Done.", s, e)>> :
             s \in {NoTs, TsA}, e \in {NoTs, TsB} }
    \cup { <<Entry("Good morning everyone", s, NoTs), Entry("Done.", NoTs, e)>> :
             s \in {NoTs, BadTs, TsA, TsB}, e \in {NoTs, BadTs, TsA, TsB, TsC} }
    \cup { <<Entry("Good morning everyone", s, TsC), Entry("ok", BadTs, NoTs),
             Entry("Done.", TsC, e)>> :
             s \in {NoTs, TsA, TsB}, e \in {BadTs, TsA, TsB} }

ShortEntries(n) == [k \in 1..n |-> Entry("ok", NoTs, NoTs)]

\* lists of entries for the paragraphs: short texts, a sentence end, the
\* long text, an empty text, and runs of 9 to 12 short texts with or
\* without the long text after them
TextEntries ==
    { [k \in 1..n |-> Entry(t[k], NoTs, NoTs)] :
        n \in 0..0, t \in {<<>>} }
    \cup UNION { { [k \in 1..n |-> Entry(t[k], NoTs, NoTs)] :
                     t \in [1..n -> {"ok", "", "Done.", LongText}] } :
                 n \in 1..3 }
    \cup UNION { { ShortEntries(n),
                   ShortEntries(n) \o <<Entry(LongText, NoTs, NoTs)>>,
                   ShortEntries(n) \o <<Entry(LongText, NoTs, NoTs),
                                        Entry("ok", NoTs, NoTs)>> } :
                 n \in 9..12 }

InitText ==
    /\ files = <<>>
    /\ projects = <<>>
    /\ transcripts = <<>>
    /\ daily = <<>>
    /\ snapshot = <<>>
    /\ now = 1
    /\ pc = "idle"
    /\ idx = 0
    /\ stats = ZeroStats
    /\ runs = 0
    /\ hist = [op |-> "none"]
    /\ edits = 0
    /\ last = [op |-> "none"]

TextFrame ==
    /\ hist' = [op |-> last.op]
    /\ runs' = runs + 1
    /\ UNCHANGED <<projects, transcripts, daily, snapshot, now, pc, idx,
                   stats, edits>>

DurationCall ==
    /\ runs < MaxCalls
    /\ \E entries \in DurEntries :
        last' = [op |-> "calculate_duration", entries |-> entries,
                 ret |-> calculate_duration(entries)]
    /\ UNCHANGED files
    /\ TextFrame

TextCall ==
    /\ runs < MaxCalls
    /\ \E entries \in TextEntries :
        last' = [op |-> "get_transcript_text", entries |-> entries,
                 paragraphs |-> GroupParagraphs(EntryTexts(entries),
                                                <<>>, <<>>),
                 ret |-> get_transcript_text(entries)]
    /\ UNCHANGED files
    /\ TextFrame

\* generate_transcript_file for a record with these entries, into an empty
\* transcripts folder
WriteCall ==
    /\ runs < MaxCalls
    /\ \E entries \in DurEntries \ {<<>>} :
       \E g \in {generate_transcript_file(IdD1, Doc(TeamStandup, TsA, <<>>),
                                          entries, Clock[now], <<>>)} :
        /\ files' = g.files
        /\ last' = [op |-> "generate_transcript_file", entries |-> entries,
                    path |-> g.path, content |-> g.files[g.path]]
    /\ TextFrame

NextText ==
    \/ DurationCall
    \/ TextCall
    \/ WriteCall

SpecText == InitText /\ [][NextText]_vars

\* the seconds from the first start timestamp to the last end timestamp
C22_Elapsed(entries) ==
    entries[Len(entries)].end_timestamp.secs - entries[1].start_timestamp.secs

\* both timestamps are there and parsable
C22_Timed(entries) ==
    /\ Len(entries) >= 2
    /\ entries[1].start_timestamp.k = "ts"
    /\ entries[Len(entries)].end_timestamp.k = "ts"

\* C22: calculate_duration returns the elapsed time from the first start
\* timestamp to the last end timestamp rounded down to whole minutes, and 0
\* for fewer than 2 entries or a missing or unparsable timestamp.
C22_RoundedDown ==
    (last.op = "calculate_duration") =>
        IF C22_Timed(last.entries)
        THEN /\ last.ret * 60 <= C22_Elapsed(last.entries)
             /\ C22_Elapsed(last.entries) < (last.ret + 1) * 60
        ELSE last.ret = 0


\* C23: every transcript document generate_transcript_file writes has
\* duration_minutes >= 0 and entry_count >= 0 in its frontmatter, also for
\* entries whose last end timestamp is earlier than the first start
\* timestamp.
C23_NonNegativeNumbers ==
    (last.op = "generate_transcript_file") =>
        /\ FmField(last.content, "duration_minutes: ")
                = <<ToString(calculate_duration(last.entries))>>
        /\ calculate_duration(last.entries) >= 0
        /\ FmField(last.content, "entry_count: ")
                = <<ToString(Len(last.entries))>>
        /\ Len(last.entries) >= 0

\* the grouping the claim describes: a paragraph closes at 10 entries, or
\* at a sentence end once its text is longer than 500 characters
RECURSIVE C24_Described(_, _, _)
C24_Described(texts, cur, paragraphs) ==
    IF texts = <<>>
    THEN (IF cur # <<>> THEN Append(paragraphs, cur) ELSE paragraphs)
    ELSE LET c == Append(cur, texts[1]) IN
         IF \/ Len(c) >= 10
            \/ /\ EndsSentence(texts[1])
               /\ TextLen(JoinWith(Singletons(c), <<" ">>)) > 500
         THEN C24_Described(Drop(texts, 1), <<>>, Append(paragraphs, c))
         ELSE C24_Described(Drop(texts, 1), c, paragraphs)

\* C24: get_transcript_text closes a paragraph as soon as it holds 10
\* entries, or as soon as the current entry ends a sentence while the
\* paragraph text is longer than 500 characters; no paragraph of the output
\* holds more than 10 entry texts.
C24_ParagraphsClose ==
    (last.op = "get_transcript_text") =>
        /\ last.paragraphs
             = C24_Described(EntryTexts(last.entries), <<>>, <<>>)
        /\ \A n \in 1..Len(last.paragraphs) : Len(last.paragraphs[n]) <= 10


----------------------------------------------------------------------------
(* update_project_file called on its own: SpecProj *)

OtherProjFile == <<"1-projects/zzz/context.md">>

\* project documents as their owner wrote them: with a Meeting Notes
\* section, with an Updates section, with neither, and with a Meeting Notes
\* section that has a sub-heading of the same name
ProjContents ==
    { ProjContent,
      <<"# ", "MMM", NL, NL, "## ", "Updates", NL, "started", NL>>,
      <<"# ", "MMM", NL, NL, "goal", NL>>,
      <<"# ", "MMM", NL, NL, "## ", "Meeting Notes", NL, NL,
        "#", "## ", "Meeting Notes", " archive", NL, "old", NL>> }

ProjTitles == {Kickoff, Retro}

InitProj ==
    /\ files = <<>>
    /\ projects \in { ProjFile :> c : c \in ProjContents }
    /\ transcripts = <<>>
    /\ daily = <<>>
    /\ snapshot = <<>>
    /\ now = 1
    /\ pc = "idle"
    /\ idx = 0
    /\ stats = ZeroStats
    /\ runs = 0
    /\ hist = [op |-> "none"]
    /\ edits = 0
    /\ last = [op |-> "none"]

UpdateProject ==
    /\ runs < MaxCalls + 1
    /\ \E file \in {ProjFile, OtherProjFile}, title \in ProjTitles :
       \E u \in {update_project_file(ProjectUpdate(file), <<D15>>, title,
                                     projects)} :
        /\ projects' = u.projects
        /\ last' = [op |-> "update_project_file", file |-> file,
                    title |-> title, pre |-> projects,
                    changed |-> u.changed, raised |-> u.raised]
    /\ hist' = [op |-> last.op]
    /\ runs' = runs + 1
    /\ UNCHANGED <<files, transcripts, daily, snapshot, now, pc, idx, stats,
                   edits>>

NextProj == UpdateProject

SpecProj == InitProj /\ [][NextProj]_vars

\* C25: after any sequence of update_project_file calls a project document
\* holds each dated entry heading at most once; a call whose heading is
\* already there returns False and writes nothing, a call for a project
\* file that does not exist returns False and creates no file, and a
\* successful call inserts its entry exactly once.
C25_EntryAtMostOnce ==
    /\ \A f \in DOMAIN projects : \A t \in ProjTitles :
        CountOcc(projects[f], ProjectMarker(<<D15>>, t)) <= 1
    /\ (last.op = "update_project_file") =>
        LET marker == ProjectMarker(<<D15>>, last.title) IN
        /\ ~last.raised
        /\ DOMAIN projects = DOMAIN last.pre
        /\ (last.file \notin DOMAIN last.pre) =>
                (~last.changed /\ projects = last.pre)
        /\ (/\ last.file \in DOMAIN last.pre
            /\ Contains(last.pre[last.file], marker)) =>
                (~last.changed /\ projects = last.pre)
        /\ last.changed =>
                CountOcc(projects[last.file], marker) = 1


----------------------------------------------------------------------------
(* The tool server (mcp_server.py): SpecMcp.  pc tells whether config.yaml *)
(* is in place next to the code ("configured") or not ("no_config"); a     *)
(* checkout holds config.example.yaml only.                                *)

\* the for loop of sync_transcripts from record n on
RECURSIVE sync_loop(_, _, _, _, _)
sync_loop(snap, n, fs, ds, st) ==
    IF n > Len(snap) THEN [files |-> fs, daily |-> ds, stats |-> st]
    ELSE LET rec == snap[n] IN
         IF ~Eligible(rec) THEN sync_loop(snap, n + 1, fs, ds, st)
         ELSE IF Raises(rec)
         THEN sync_loop(snap, n + 1, fs, ds, [st EXCEPT !.errors = @ + 1])
         ELSE LET g == generate_transcript_file(rec.id, rec.doc, rec.entries,
                                                Clock[1], fs)
                  a == add_meeting_to_daily(
                          get_meeting_date(rec.entries, rec.doc, Clock[1]).date,
                          rec.doc.title, DailyNotes(rec.doc), g.path, ds)
              IN  IF g.was_created
                  THEN sync_loop(snap, n + 1, g.files, a.daily,
                          [st EXCEPT !.transcripts_created = @ + 1,
                                     !.daily_entries_added =
                                         IF a.added THEN @ + 1 ELSE @,
                                     !.errors =
                                         IF a.raised THEN @ + 1 ELSE @])
                  ELSE sync_loop(snap, n + 1, fs, ds,
                          [st EXCEPT !.transcripts_skipped = @ + 1])

\* json.dumps takes strings, numbers, booleans, None and lists of them; a
\* datetime.date makes it raise TypeError
JsonSerializable(val) ==
    /\ val.t # "date"
    /\ val.t = "list" => \A n \in 1..Len(val.items) : val.items[n].t # "date"

\* the keys format_transcript_info reads
InfoKeys == {"title: ", "date: ", "duration_minutes: ", "processed: ",
             "attendees: "}

\* format_transcript_info(file_path) can be written as JSON: its own except
\* branch gives {"filename", "error"}, which can
InfoSerializable(content) ==
    LET p == parse_frontmatter(content) IN
    p.kind = "dict" =>
        \A n \in 1..Len(p.fields) :
            (p.fields[n].key \in InfoKeys /\ FmGet(p.fields, p.fields[n].key,
                                                   NoneV) = p.fields[n].val)
                => JsonSerializable(p.fields[n].val)

NoArguments == [is_none |-> TRUE, filename |-> <<>>]
Arguments(filename) == [is_none |-> FALSE, filename |-> filename]

\* call_tool(name, arguments): raised when an exception leaves the call,
\* else the JSON of its one result and the vault afterwards
call_tool(name, arguments, configured, snap, fs, ds) ==
    LET res(status, has_message, kind, fields, content, fs2, ds2) ==
            [raised |-> FALSE, status |-> status,
             has_message |-> has_message, kind |-> kind,
             frontmatter |-> fields, content |-> content,
             files |-> fs2, daily |-> ds2]
        error == res("error", TRUE, "none", <<>>, <<>>, fs, ds)
        success == res("success", FALSE, "none", <<>>, <<>>, fs, ds)
    IN  IF ~configured
        THEN [error EXCEPT !.raised = TRUE, !.status = "none",
                           !.has_message = FALSE]
        ELSE IF name = "sync_transcripts"
        THEN LET r == sync_loop(snap, 1, fs, ds, ZeroStats) IN
             res("success", TRUE, "none", <<>>, <<>>, r.files, r.daily)
             @@ [stats |-> r.stats]
        ELSE IF name = "list_unprocessed_transcripts"
        THEN IF arguments.is_none THEN error
             ELSE IF \A f \in DOMAIN fs :
                        Contains(fs[f], <<"processed: ", "false">>)
                            => InfoSerializable(fs[f])
             THEN success
             ELSE error
        ELSE IF name = "get_transcript"
        THEN IF arguments.is_none THEN error
             ELSE IF arguments.filename = <<>> THEN error
             ELSE IF arguments.filename \notin DOMAIN fs THEN error
             ELSE LET p == parse_frontmatter(fs[arguments.filename]) IN
                  IF p.kind = "raised" THEN error
                  ELSE IF \E n \in 1..Len(p.fields) :
                            ~JsonSerializable(p.fields[n].val)
                  THEN error
                  ELSE res("success", FALSE, p.kind, p.fields, p.body, fs, ds)
        ELSE IF name = "get_granola_cache_info" THEN success
        ELSE error

ToolNames == {"sync_transcripts", "list_unprocessed_transcripts",
              "get_transcript", "get_granola_cache_info", "nonexistent_tool"}

\* transcripts folders: empty, or with one document sync has written or
\* its owner has edited
McpVaults == {<<>>} \cup { d.path :> d.content : d \in ProcDocs }

McpSnapshots ==
    { << Rec(IdD10, Doc(<<"Planning">>, TsA, n), EntriesNoTs) >> :
        n \in {<<>>, FixtureNotes} }

\* the file names a caller asks for: every document of the model and one
\* that is never there
McpFilenames ==
    { d.path : d \in ProcDocs }
    \cup { BasePath(D15, <<"Planning">>), <<"nonexistent.md">> }

McpArguments ==
    { NoArguments, Arguments(<<>>) } \cup { Arguments(f) : f \in McpFilenames }

InitMcp ==
    /\ files \in McpVaults
    /\ projects = <<>>
    /\ transcripts = <<>>
    /\ daily = <<>>
    /\ snapshot \in McpSnapshots
    /\ now = 1
    /\ pc = "no_config"
    /\ idx = 0
    /\ stats = ZeroStats
    /\ runs = 0
    /\ hist = [op |-> "none"]
    /\ edits = 0
    /\ last = [op |-> "none"]

\* the owner copies config.example.yaml to config.yaml
Configure ==
    /\ pc = "no_config"
    /\ pc' = "configured"
    /\ hist' = [op |-> last.op]
    /\ last' = [op |-> "configure"]
    /\ UNCHANGED <<files, projects, transcripts, daily, snapshot, now, idx,
                   stats, runs, edits>>

CallTool ==
    /\ runs < MaxCalls
    /\ \E name \in ToolNames, arguments \in McpArguments :
       \E r \in {call_tool(name, arguments, pc = "configured", snapshot,
                           files, daily)} :
        /\ files' = r.files
        /\ daily' = r.daily
        /\ last' = [op |-> "call_tool", name |-> name,
                    arguments |-> arguments, configured |-> pc = "configured",
                    pre |-> [files |-> files, daily |-> daily],
                    raised |-> r.raised, status |-> r.status,
                    has_message |-> r.has_message, kind |-> r.kind,
                    frontmatter |-> r.frontmatter, content |-> r.content]
    /\ runs' = runs + 1
    /\ hist' = [op |-> last.op]
    /\ UNCHANGED <<projects, transcripts, snapshot, now, pc, idx, stats, edits>>

NextMcp ==
    \/ Configure
    \/ CallTool

SpecMcp == InitMcp /\ [][NextMcp]_vars

IsCall == last.op = "call_tool"

\* C26: call_tool never raises to its caller: for every tool name and
\* arguments it returns one result with status success or error, with a
\* message when the status is error; an unknown tool name, get_transcript
\* without filename and get_transcript for a missing file give status error
\* and change no file.
C26_NeverRaises ==
    IsCall =>
        /\ ~last.raised
        /\ last.status \in {"success", "error"}
        /\ (last.status = "error") => last.has_message
        /\ (\/ last.name = "nonexistent_tool"
            \/ /\ last.name = "get_transcript"
               /\ \/ last.arguments.filename = <<>>
                  \/ last.arguments.filename \notin DOMAIN last.pre.files)
            => /\ last.status = "error"
               /\ files = last.pre.files
               /\ daily = last.pre.daily

\* C27: get_transcript with the file name of an existing transcript
\* document, one written by sync_transcripts included, returns status
\* success with the parsed frontmatter fields and the body of the document.
C27_GetTranscriptSucceeds ==
    (/\ IsCall
     /\ last.configured
     /\ last.name = "get_transcript"
     /\ ~last.arguments.is_none
     /\ last.arguments.filename \in DOMAIN last.pre.files) =>
        LET p == parse_frontmatter(last.pre.files[last.arguments.filename]) IN
        /\ ~last.raised
        /\ last.status = "success"
        /\ last.kind = "dict"
        /\ last.frontmatter = p.fields
        /\ last.content = p.body


----------------------------------------------------------------------------
(* Day documents that come from the template by add_meeting_to_daily       *)
(* alone: SpecLinks                                                        *)

\* notes of a meeting about the day document itself
HeadingNotes == <<"Moved the open points to ">> \o H2("Brain Dump")

LinkTitles == {TeamStandup, <<"Meetings">>, <<"Brain Dump">>}
LinkNotes == {<<>>, FixtureNotes, HeadingNotes}
LinkPaths == {PathA, PathB}

InitLinks ==
    /\ files = <<>>
    /\ projects = <<>>
    /\ transcripts = <<>>
    /\ daily = <<>>
    /\ snapshot = <<>>
    /\ now = 1
    /\ pc = "idle"
    /\ idx = 0
    /\ stats = ZeroStats
    /\ runs = 0
    /\ hist = [op |-> "none"]
    /\ edits = 0
    /\ last = [op |-> "none"]

AddLinked ==
    /\ runs < MaxCalls
    /\ \E title \in LinkTitles, notes \in LinkNotes, path \in LinkPaths :
       \E a \in {add_meeting_to_daily(D15, title, notes, path, daily)} :
        /\ daily' = a.daily
        /\ last' = [op |-> "add_meeting_to_daily", date |-> D15,
                    title |-> title, notes |-> notes, path |-> path,
                    pre |-> daily, ret |-> a.added]
    /\ DailyFrame

NextLinks == AddLinked

SpecLinks == InitLinks /\ [][NextLinks]_vars

\* C28: in every day document that comes from the template by calls of
\* add_meeting_to_daily, with any titles, notes and transcript paths, each
\* link token occurs at most once; one successful call inserts its entry
\* exactly once.
C28_LinkAtMostOnce ==
    /\ \A d \in DOMAIN daily : \A path \in LinkPaths :
        CountOcc(daily[d], LinkToken(path)) <= 1
    /\ (IsAddMeeting /\ last.ret) =>
        CountOcc(daily[last.date], LinkToken(last.path)) = 1


----------------------------------------------------------------------------
(* The counters and the existing files of sync_transcripts, under Spec *)

C29_Sum(st) == st.transcripts_created + st.transcripts_skipped + st.errors

\* C29: sync_transcripts counts every eligible record in exactly one of
\* transcripts_created, transcripts_skipped and errors, so that on return
\* their sum is the number of eligible records, and daily_entries_added is
\* never above transcripts_created.
C29_CountedOnce ==
    /\ stats.daily_entries_added <= stats.transcripts_created
    /\ (last.op = "sync_record") =>
        /\ C29_Sum(stats) = C29_Sum(last.pre.stats)
                + (IF Eligible(snapshot[last.n]) THEN 1 ELSE 0)
        /\ stats.transcripts_created >= last.pre.stats.transcripts_created
        /\ stats.transcripts_skipped >= last.pre.stats.transcripts_skipped
        /\ stats.errors >= last.pre.stats.errors
    /\ (last.op = "sync_return") =>
        /\ C29_Sum(last.ret) = EligibleCount
        /\ last.ret.daily_entries_added <= last.ret.transcripts_created

\* C30: sync_transcripts never deletes, renames or overwrites a transcript
\* document that already exists: a pass of the loop leaves every file that
\* was in the transcripts folder before the pass in place with its content
\* (so a write goes to a path at which no file existed when it was checked),
\* and on return every file that was there when the run started is there
\* with the content it had.
C30_NeverOverwrites ==
    /\ (last.op = "sync_record") =>
        \A p \in DOMAIN last.pre.files :
            p \in DOMAIN files /\ files[p] = last.pre.files[p]
    /\ (last.op = "sync_return") =>
        \A p \in DOMAIN last.prev.start.files :
            p \in DOMAIN files /\ files[p] = last.prev.start.files[p]

\* a run that found a transcript of another meeting under the plain name has
\* written a new transcript and returned
C30_Witness ==
    /\ last.op = "sync_return"
    /\ last.prev.start.files # <<>>
    /\ last.ret.transcripts_created >= 1
    /\ \E n \in 1..Len(snapshot) :
        LET rec == snapshot[n] IN
        /\ Eligible(rec) /\ ~Raises(rec)
        /\ \E c \in 1..Len(Clock) :
           LET dt == get_meeting_date(rec.entries, rec.doc, Clock[c])
               base == BasePath(dt.date, sanitize_filename(rec.doc.title))
               alt == SuffixPath(dt.date, sanitize_filename(rec.doc.title),
                                 dt.hhmm)
           IN  /\ base \in DOMAIN last.prev.start.files
               /\ ~SameDocument(last.prev.start.files[base], rec.id)
               /\ alt \notin DOMAIN last.prev.start.files
               /\ alt \in DOMAIN files
=============================================================================
